---- MODULE Spec2Model ----
(***************************************************************************)
(* Verification model of the code-review-helper analysis engine:           *)
(*   - DuplicationDetector (detectors/javascript/duplication-detector.ts)  *)
(*   - Analyzer.analyze / analyzeFile (core/analyzer.ts)                   *)
(*   - Parser.parseFile as the only suspension point (core/parser.ts)      *)
(*   - ReportBuilder (models/report.ts) and the CLI exit code (cli)        *)
(*                                                                         *)
(* Specifications:                                                         *)
(*   SpecDup  : any sequence of detect()/reset() calls on one detector     *)
(*   SpecTok  : extractTokens / calculateHash over pairs of syntax trees   *)
(*   Spec     : one Analyzer.analyze() run under the event loop            *)
(*   FairSpec : Spec with the fairness the event loop provides             *)
(*   SpecRuns : several analyze() runs in one process                      *)
(*   SpecScore: calculateFileScore over issue lists and file sizes         *)
(*   SpecCfg  : ConfigManager.loadConfig / validateConfig call sequences   *)
(*   SpecIssue: one IssueBuilder, with*() calls and build()                *)
(*   SpecReport: one ReportBuilder, before and after build()               *)
(*   SpecCtor : the Analyzer constructor's configuration load and the      *)
(*              callers of getRevisorConfig()                              *)
(*   SpecCx   : ComplexityDetector.detect over every function form         *)
(*   SpecRegistry: createDetectorsForLanguage / createDetectorByName calls *)
(***************************************************************************)
EXTENDS Integers, Sequences, FiniteSets, TLC

VARIABLES
  \* ---- DuplicationDetector instance (shared by every file of a run) ----
  dupConfig,       \* this.config: [enabled, thresholds]
  codeBlocks,      \* this.codeBlocks
  processedFiles,  \* this.processedFiles
  \* ---- driver of SpecDup: the last call and what it returned ----
  lastCall,        \* [op, path, kind, fail] of the last detect()/reset()
  lastIssues,      \* Issue[] returned by the last detect()
  lastMatches,     \* the matches (local `duplications`) of the last detect()
  calls,           \* detect() calls since the last reset()/construction
  nCalls,          \* number of calls made so far (bounded by MaxCalls)
  \* ---- SpecTok: the pair of trees under comparison ----
  treeA, treeB, tokResult,
  \* ---- SpecScore: the arguments of calculateFileScore and its result ----
  scoreIn, scoreOut,
  \* ---- Analyzer.analyze() run ----
  pc,              \* position of analyze(): see Spec
  env,             \* inputs of the run: path, files, failures, config
  fstate,          \* per file: position of its analyzeFile() promise
  work,            \* locals of the executing analyzeFile()/detect()
  settled,         \* per file: value of the settled promise
  batchStart,      \* loop variable i of the batch loop
  fileAnalyses,    \* fileAnalyses accumulated by the batch loop
  report,          \* the Report returned by analyze()
  exitCode,        \* completion signal of the command that called analyze()
  order,           \* observation: files in the order their reads completed
  \* ---- the process in which analyze() is called ----
  dupInstance,     \* duplicationDetectorInstance !== null (detectors/index)
  run,             \* number of the analyze() call under way (1, 2, ...)
  resetDone,       \* resetDuplicationDetector() was called since the last run
  firstSummary,    \* observation: Report.summary returned by the first run
  \* ---- ConfigManager (config/config-manager.ts) ----
  DEFAULT_CONFIG,  \* the static DEFAULT_CONFIG object (detector thresholds)
  rawConfig,       \* the configuration file given to the last loadConfig()
  loadedConfig,    \* the RevisorConfig the last loadConfig() returned
  nLoads,          \* number of loadConfig()/validateConfig() calls so far
  \* ---- one IssueBuilder (models/issue.ts) ----
  partialIssue,    \* this.issue: the properties set so far
  buildResult,     \* what build() did: [called, threw, issue]
  \* ---- one ReportBuilder (models/report.ts) and its caller ----
  builderReport,   \* this.report of the builder
  returned,        \* the caller's result of build(): [built, ref, atBuild]
  \* ---- one Analyzer under construction and the code that created it ----
  revisorConfig,   \* this.revisorConfig: "unset" until a load assigns it
  configLoad,      \* the promise chain started by initializeConfig()
  caller           \* the caller: [kind, pc, config, summary]

dupVars  == <<dupConfig, codeBlocks, processedFiles>>
drvVars  == <<lastCall, lastIssues, lastMatches, calls, nCalls>>
scoreVars == <<scoreIn, scoreOut>>
cfgVars  == <<DEFAULT_CONFIG, rawConfig, loadedConfig, nLoads>>
issueVars == <<partialIssue, buildResult>>
builderVars == <<builderReport, returned>>
ctorVars == <<revisorConfig, configLoad, caller>>
sideVars == <<cfgVars, issueVars, builderVars, ctorVars>>
tokVars  == <<treeA, treeB, tokResult, scoreVars, sideVars>>
procVars == <<dupInstance, run, resetDone, firstSummary>>
runVars  == <<pc, env, fstate, work, settled, batchStart,
              fileAnalyses, report, exitCode, order, procVars>>
vars     == <<dupVars, drvVars, tokVars, runVars>>

----------------------------------------------------------------------------
(* Bounds of the model *)

MaxCalls == 3    \* detect()/reset() calls of a SpecDup behaviour
MaxFiles == 3    \* files of the input list of a run
MaxFaulty == 1   \* files of a run whose read fails or never completes
MaxRuns == 2     \* analyze() calls made in one process (SpecRuns)
MaxCritical == 13  \* critical issues of one file (SpecScore)
MaxOther == 2    \* issues of each other severity of one file (SpecScore)

----------------------------------------------------------------------------
(* Generic helpers *)

Absent == "<absent>"
None   == "<none>"

Range(s) == { s[i] : i \in DOMAIN s }

\* Op applied to the value of e
Bind(e, Op(_)) == CHOOSE r \in { Op(v) : v \in {e} } : TRUE

RECURSIVE SumSeq(_)
SumSeq(s) ==
  Bind(s, LAMBDA v : IF v = <<>> THEN 0 ELSE Head(v) + SumSeq(Tail(v)))

RECURSIVE FlatSeq(_)
FlatSeq(ss) ==
  Bind(ss, LAMBDA v : IF v = <<>> THEN <<>> ELSE Head(v) \o FlatSeq(Tail(v)))

Min(a, b) == IF a <= b THEN a ELSE b
Max(a, b) == IF a >= b THEN a ELSE b

----------------------------------------------------------------------------
(* Syntax trees as the parser hands them over.                             *)
(* A node carries its type tag, the optional string fields operator and    *)
(* name, the kind of its value field, its loc, and its object-valued       *)
(* fields in key order (kids: sequence of [key, node]).                    *)
(* A name is a non-empty string, as every identifier the parser reads is;  *)
(* a value is recorded by the kind of a truthy string or number, and a     *)
(* field that is missing or falsy is Absent (the token extraction tests    *)
(* n.name and n.value for truthiness before their type).                   *)

Node(type, operator, name, value, loc, kids) ==
  [type |-> type, operator |-> operator, name |-> name, value |-> value,
   loc |-> loc, kids |-> kids]

Loc(sl, el) == [start |-> sl, end |-> el]
NoLoc == Loc(0, 0)   \* a node without loc
Kid(key, node) == [key |-> key, node |-> node]

Ident(nm, l) == Node("Identifier", Absent, nm, Absent, Loc(l, l), <<>>)
NumLit(l)    == Node("NumericLiteral", Absent, Absent, "number", Loc(l, l),
                     <<Kid("extra", Node(Absent, Absent, Absent, Absent, NoLoc, <<>>))>>)
Comment(l)   == Node("CommentLine", Absent, Absent, "string", Loc(l, l), <<>>)

\* { return <a> + 1; <g>(<a>); }  spanning lines sl..sl+3
Body(a, g, sl) ==
  Node("BlockStatement", Absent, Absent, Absent, Loc(sl, sl + 3),
    << Kid("body",
         Node("ReturnStatement", Absent, Absent, Absent, Loc(sl + 1, sl + 1),
           << Kid("argument",
                Node("BinaryExpression", "+", Absent, Absent, Loc(sl + 1, sl + 1),
                  << Kid("left", Ident(a, sl + 1)),
                     Kid("right", NumLit(sl + 1)) >>)) >>)),
       Kid("body",
         Node("ExpressionStatement", Absent, Absent, Absent, Loc(sl + 2, sl + 2),
           << Kid("expression",
                Node("CallExpression", Absent, Absent, Absent, Loc(sl + 2, sl + 2),
                  << Kid("callee", Ident(g, sl + 2)),
                     Kid("arguments", Ident(a, sl + 2)) >>)) >>)) >>)

\* function <f>(<params>) { return <a> + 1; <g>(<a>); }  starting at line sl
Func(f, params, g, sl) ==
  Node("FunctionDeclaration", Absent, Absent, Absent, Loc(sl, sl + 3),
    << Kid("id", Ident(f, sl)) >>
    \o [i \in 1..Len(params) |-> Kid("params", Ident(params[i], sl))]
    \o << Kid("body", Body(params[1], g, sl)) >>)

\* // comment
\* function <f>(<params>) { ... }      (the comment is attached to the function)
CommentedFunc(f, params, g, sl) ==
  [Func(f, params, g, sl) EXCEPT
     !.kids = <<Kid("leadingComments", Comment(sl - 1))>> \o @]

\* x = <a> && <b>;  one short statement, no extractable block of any size
Small(a, b) ==
  Node("ExpressionStatement", Absent, Absent, Absent, Loc(1, 1),
    << Kid("expression",
         Node("LogicalExpression", "&&", Absent, Absent, Loc(1, 1),
           << Kid("left", Ident(a, 1)), Kid("right", Ident(b, 1)) >>)) >>)

\* function <c>(<a>, <b>) {
\*   if (<a> && <b>) {
\*     for (;;) {
\*     }
\*   }
\*   return <a>;
\* }
Branchy(c, a, b) ==
  Node("FunctionDeclaration", Absent, Absent, Absent, Loc(1, 7),
    << Kid("id", Ident(c, 1)), Kid("params", Ident(a, 1)), Kid("params", Ident(b, 1)),
       Kid("body",
         Node("BlockStatement", Absent, Absent, Absent, Loc(1, 7),
           << Kid("body",
                Node("IfStatement", Absent, Absent, Absent, Loc(2, 5),
                  << Kid("test",
                       Node("LogicalExpression", "&&", Absent, Absent, Loc(2, 2),
                         << Kid("left", Ident(a, 2)), Kid("right", Ident(b, 2)) >>)),
                     Kid("consequent",
                       Node("BlockStatement", Absent, Absent, Absent, Loc(2, 5),
                         << Kid("body",
                              Node("ForStatement", Absent, Absent, Absent, Loc(3, 4),
                                << Kid("body",
                                     Node("BlockStatement", Absent, Absent, Absent,
                                          Loc(3, 4), <<>>)) >>)) >>)) >>)),
              Kid("body",
                Node("ReturnStatement", Absent, Absent, Absent, Loc(6, 6),
                  << Kid("argument", Ident(a, 6)) >>)) >>)) >>)

\* const <c> = <fn>;  with <fn> a function or arrow function expression
ConstDecl(c, fn) ==
  Node("VariableDeclaration", Absent, Absent, Absent, Loc(1, 7),
    << Kid("declarations",
         Node("VariableDeclarator", Absent, Absent, Absent, Loc(1, 7),
           << Kid("id", Ident(c, 1)), Kid("init", fn) >>)) >>)

\* the function of Branchy as an expression: function (<a>, <b>) { ... }
\* or (<a>, <b>) => { ... }
BranchyExpr(type, a, b) ==
  [Branchy("c", a, b) EXCEPT !.type = type, !.kids = Tail(@)]

\* class K { <method> }
ClassDecl(method) ==
  Node("ClassDeclaration", Absent, Absent, Absent, Loc(1, 7),
    << Kid("id", Ident("K", 1)),
       Kid("body",
         Node("ClassBody", Absent, Absent, Absent, Loc(1, 7),
           << Kid("body", method) >>)) >>)

\* the method m(<a>, <b>) { ... } with the body of Branchy, as an ESTree
\* parser gives it: a MethodDefinition whose value is a FunctionExpression
MethodDefinition(a, b) ==
  Node("MethodDefinition", Absent, Absent, Absent, Loc(1, 7),
    << Kid("key", Ident("m", 1)),
       Kid("value", BranchyExpr("FunctionExpression", a, b)) >>)

\* the same method as @babel/parser gives it without the estree plugin: one
\* ClassMethod node holding key, params and body
ClassMethod(a, b) ==
  [Branchy("m", a, b) EXCEPT !.type = "ClassMethod", !.kids[1].key = "key"]

Program(stmts) ==
  Node("File", Absent, Absent, Absent, Loc(1, 9),
    << Kid("program",
         Node("Program", Absent, Absent, Absent, Loc(1, 9),
              [i \in 1..Len(stmts) |-> Kid("body", stmts[i])])) >>)

\* The file contents the model draws from
AstKinds ==
  {"f1", "f1r", "f1rs", "f2", "two", "small", "cx",
   "arrow", "fexpr", "clsE", "clsB"}

Ast(kind) ==
  CASE kind = "f1"    -> Program(<<Func("f", <<"a">>, "g", 1)>>)
    [] kind = "f1r"   -> Program(<<Func("h", <<"b">>, "k", 1)>>)
    \* the function of f1r followed by 20 one-line statements
    [] kind = "f1rs"  -> Program(<<Func("h", <<"b">>, "k", 1)>>
                                 \o [i \in 1..20 |->
                                      [Small("a", "b") EXCEPT !.loc = Loc(4 + i, 4 + i)]])
    [] kind = "f2"    -> Program(<<Func("f", <<"a", "b">>, "g", 1)>>)
    [] kind = "two"   -> Program(<<Func("f", <<"a">>, "g", 1),
                                   Func("p", <<"a", "b">>, "g", 5)>>)
    [] kind = "small" -> Program(<<Small("a", "b")>>)
    [] kind = "cx"    -> Program(<<Branchy("c", "a", "b")>>)
    [] kind = "arrow" -> Program(<<ConstDecl("c",
                           BranchyExpr("ArrowFunctionExpression", "a", "b"))>>)
    [] kind = "fexpr" -> Program(<<ConstDecl("c",
                           BranchyExpr("FunctionExpression", "a", "b"))>>)
    [] kind = "clsE"  -> Program(<<ClassDecl(MethodDefinition("a", "b"))>>)
    [] kind = "clsB"  -> Program(<<ClassDecl(ClassMethod("a", "b"))>>)

\* Paths handed to detect() directly (SpecDup) and the absolute paths that
\* getFilesToAnalyze returns in a run (glob is called with absolute: true)
RelPaths == {"a.js", "b.js", "c.js", "d.js", "e.js"}
AbsPaths == {"/w/a.js", "/w/b.js", "/w/c.js", "/w/d.js", "/w/e.js"}
Paths == RelPaths \cup AbsPaths

\* ParsedFile
ParsedFile(path, kind) ==
  [path |-> path, ast |-> Ast(kind), kind |-> kind,
   linesOfCode |-> CASE kind = "two" -> 8 [] kind = "small" -> 1
                     [] kind \in {"cx", "arrow", "fexpr", "clsE", "clsB"} -> 7
                     [] kind = "f1rs" -> 24 [] OTHER -> 4]

----------------------------------------------------------------------------
(* DuplicationDetector: token extraction and fingerprint *)

\* The character codes (charCodeAt) of the token strings and of the
\* separator used by tokens.join('|')
CharCodes ==
     "File"                       :> <<70, 105, 108, 101>> @@
     "Program"                    :> <<80, 114, 111, 103, 114, 97, 109>> @@
     "FunctionDeclaration"        :> <<70, 117, 110, 99, 116, 105, 111, 110, 68, 101, 99, 108, 97, 114, 97, 116, 105, 111, 110>> @@
     "BlockStatement"             :> <<66, 108, 111, 99, 107, 83, 116, 97, 116, 101, 109, 101, 110, 116>> @@
     "ReturnStatement"            :> <<82, 101, 116, 117, 114, 110, 83, 116, 97, 116, 101, 109, 101, 110, 116>> @@
     "BinaryExpression"           :> <<66, 105, 110, 97, 114, 121, 69, 120, 112, 114, 101, 115, 115, 105, 111, 110>> @@
     "LogicalExpression"          :> <<76, 111, 103, 105, 99, 97, 108, 69, 120, 112, 114, 101, 115, 115, 105, 111, 110>> @@
     "ExpressionStatement"        :> <<69, 120, 112, 114, 101, 115, 115, 105, 111, 110, 83, 116, 97, 116, 101, 109, 101, 110, 116>> @@
     "CallExpression"             :> <<67, 97, 108, 108, 69, 120, 112, 114, 101, 115, 115, 105, 111, 110>> @@
     "Identifier"                 :> <<73, 100, 101, 110, 116, 105, 102, 105, 101, 114>> @@
     "NumericLiteral"             :> <<78, 117, 109, 101, 114, 105, 99, 76, 105, 116, 101, 114, 97, 108>> @@
     "CommentLine"                :> <<67, 111, 109, 109, 101, 110, 116, 76, 105, 110, 101>> @@
     "IDENTIFIER"                 :> <<73, 68, 69, 78, 84, 73, 70, 73, 69, 82>> @@
     "LITERAL"                    :> <<76, 73, 84, 69, 82, 65, 76>> @@
     "+"                          :> <<43>> @@
     "&&"                         :> <<38, 38>> @@
     "IfStatement"                :> <<73, 102, 83, 116, 97, 116, 101, 109, 101, 110, 116>> @@
     "ForStatement"               :> <<70, 111, 114, 83, 116, 97, 116, 101, 109, 101, 110, 116>> @@
     "FunctionExpression"         :> <<70, 117, 110, 99, 116, 105, 111, 110, 69, 120, 112, 114, 101, 115, 115, 105, 111, 110>> @@
     "ArrowFunctionExpression"    :> <<65, 114, 114, 111, 119, 70, 117, 110, 99, 116, 105, 111, 110, 69, 120, 112, 114, 101, 115, 115, 105, 111, 110>> @@
     "MethodDefinition"           :> <<77, 101, 116, 104, 111, 100, 68, 101, 102, 105, 110, 105, 116, 105, 111, 110>> @@
     "c" :> <<99>> @@
     "a" :> <<97>> @@ "b" :> <<98>> @@ "f" :> <<102>> @@ "g" :> <<103>> @@
     "h" :> <<104>> @@ "k" :> <<107>> @@ "p" :> <<112>> @@
     "|"                          :> <<124>>

\* extractTokens skips these keys, traverseAST those
TokenSkipKeys    == {"parent", "loc", "range"}
TraverseSkipKeys == {"parent", "leadingComments", "trailingComments"}

\* Variant of extractFromNode that compares the names themselves
RECURSIVE extractFromNodeNamed(_)
extractFromNodeNamed(node) ==
  Bind(node, LAMBDA n :
    (IF n.type # Absent THEN <<n.type>> ELSE <<>>)
    \o (IF n.operator # Absent THEN <<n.operator>> ELSE <<>>)
    \o (IF n.name # Absent THEN <<n.name>> ELSE <<>>)
    \o (IF n.value \in {"string", "number"} THEN <<"LITERAL">> ELSE <<>>)
    \o FlatSeq([i \in 1..Len(n.kids) |->
                  IF n.kids[i].key \in TokenSkipKeys THEN <<>>
                  ELSE extractFromNodeNamed(n.kids[i].node)]))

\* extractTokens.extractFromNode: type tag, operator, IDENTIFIER marker for
\* a string name, LITERAL marker for a string/number value, then every
\* object-valued field except parent/loc/range
RECURSIVE extractFromNode(_)
extractFromNode(node) ==
  Bind(node, LAMBDA n :
    (IF n.type # Absent THEN <<n.type>> ELSE <<>>)
    \o (IF n.operator # Absent THEN <<n.operator>> ELSE <<>>)
    \o (IF n.name # Absent THEN <<"IDENTIFIER">> ELSE <<>>)
    \o (IF n.value \in {"string", "number"} THEN <<"LITERAL">> ELSE <<>>)
    \o FlatSeq([i \in 1..Len(n.kids) |->
                  IF n.kids[i].key \in TokenSkipKeys THEN <<>>
                  ELSE extractFromNode(n.kids[i].node)]))

extractTokens(node) == extractFromNode(node)

\* tokens.join('|') as a sequence of character codes
RECURSIVE JoinChars(_)
JoinChars(tokens) ==
  Bind(tokens, LAMBDA t :
    IF t = <<>> THEN <<>>
    ELSE IF Len(t) = 1 THEN CharCodes[t[1]]
    ELSE CharCodes[t[1]] \o CharCodes["|"] \o JoinChars(Tail(t)))

\* A 32-bit integer is kept as two 16-bit halves [hi, lo] (two's complement)
W16 == 65536

\* hash = ((hash << 5) - hash) + char; hash = hash & hash
\* i.e. (31 * hash + char) truncated to 32 bits
HashStep(h, c) ==
  LET lo == h.lo * 31 + c
      hi == h.hi * 31 + (lo \div W16)
  IN  [hi |-> hi % W16, lo |-> lo % W16]

\* the for loop over the characters cs[from..to], left to right
RECURSIVE HashRange(_, _, _, _)
HashRange(h, cs, from, to) ==
  IF from > to \/ h.lo < 0 THEN h
  ELSE IF from = to THEN HashStep(h, cs[from])
  ELSE LET mid == (from + to) \div 2
       IN  HashRange(HashRange(h, cs, from, mid), cs, mid + 1, to)

HashChars(h, cs) == HashRange(h, cs, 1, Len(cs))

IsNeg32(h) == h.hi >= 32768

\* magnitude of a negative 32-bit value: two's complement negation
Negate32(h) ==
  LET lo == (W16 - 1 - h.lo) + 1
      hi == (W16 - 1 - h.hi) + (lo \div W16)
  IN  [hi |-> hi % W16, lo |-> lo % W16]

\* digits of an unsigned 32-bit value in base 36, most significant first
RECURSIVE Digits36(_)
Digits36(h) ==
  LET r1  == h.hi % 36
      mid == r1 * W16 + h.lo
      q   == [hi |-> h.hi \div 36, lo |-> mid \div 36]
      d   == mid % 36
  IN  IF q.hi = 0 /\ q.lo = 0 THEN <<d>> ELSE Digits36(q) \o <<d>>

\* Number.prototype.toString(36): sign and digits
ToString36(h) ==
  IF IsNeg32(h) THEN [neg |-> TRUE,  digits |-> Digits36(Negate32(h))]
  ELSE               [neg |-> FALSE, digits |-> Digits36(h)]

calculateHash(tokens) ==
  ToString36(HashChars([hi |-> 0, lo |-> 0], JoinChars(tokens)))

----------------------------------------------------------------------------
(* DuplicationDetector: configuration *)

DefaultMinLines == 6
DefaultMinTokens == 50
\* similarity values and thresholds are exact fractions [n, d]
Frac(n, d) == [n |-> n, d |-> d]
DefaultSimilarityThreshold == Frac(85, 100)

defaultConfig ==
  [enabled |-> TRUE,
   thresholds |-> [minLines |-> DefaultMinLines,
                   minTokens |-> DefaultMinTokens,
                   similarityThreshold |-> DefaultSimilarityThreshold]]

\* constructor(config?): enabled defaults to true, thresholds are the
\* defaults overridden by the keys the caller supplied
DuplicationDetector(config) ==
  [enabled |-> IF "enabled" \in DOMAIN config THEN config.enabled ELSE TRUE,
   thresholds |-> IF "thresholds" \in DOMAIN config
                  THEN config.thresholds @@ defaultConfig.thresholds
                  ELSE defaultConfig.thresholds]

\* BaseDetector.getThreshold: this.config.thresholds?.[key] ?? defaultValue
getThreshold(cfg, key, defaultValue) ==
  IF key \in DOMAIN cfg.thresholds THEN cfg.thresholds[key] ELSE defaultValue

\* Variant in which a detector ignores its enabled flag
isEnabledAlways(cfg) == TRUE

\* BaseDetector.isEnabled: this.config.enabled
isEnabled(cfg) == cfg.enabled

\* r1 >= r2 on fractions with positive denominators
FracGE(r1, r2) == r1.n * r2.d >= r2.n * r1.d
FracEQ(r1, r2) == r1.n * r2.d = r2.n * r1.d

\* Math.round(r * 100) for a non-negative fraction
RoundPct(r) == (200 * r.n + r.d) \div (2 * r.d)

----------------------------------------------------------------------------
(* DuplicationDetector: block extraction *)

\* traverseAST: the node, then its object-valued fields in key order except
\* parent/leadingComments/trailingComments.  (The loc object is visited too;
\* it has no type and no object-valued field with a type, so it yields no
\* callback effect and is not listed.)
RECURSIVE traverseAST(_)
traverseAST(node) ==
  Bind(node, LAMBDA n :
    <<n>>
    \o FlatSeq([i \in 1..Len(n.kids) |->
                  IF n.kids[i].key \in TraverseSkipKeys THEN <<>>
                  ELSE traverseAST(n.kids[i].node)]))

extractableTypes ==
  {"FunctionDeclaration", "FunctionExpression", "ArrowFunctionExpression",
   "MethodDefinition", "BlockStatement", "IfStatement", "ForStatement",
   "WhileStatement", "SwitchStatement"}

isExtractableNode(node) == node.type \in extractableTypes

createCodeBlock(file, node, id) ==
  LET startLine == IF node.loc.start # 0 THEN node.loc.start ELSE 1
      endLine   == IF node.loc.end # 0 THEN node.loc.end ELSE startLine
      tokens    == extractTokens(node)
  IN  [id |-> id, startLine |-> startLine, endLine |-> endLine,
       tokens |-> tokens, hash |-> calculateHash(tokens),
       node |-> [loc |-> node.loc], filePath |-> file.path]

isValidBlock(cfg, block) ==
  /\ block.endLine - block.startLine + 1 >= getThreshold(cfg, "minLines", DefaultMinLines)
  /\ Len(block.tokens) >= getThreshold(cfg, "minTokens", DefaultMinTokens)

\* The blocks created by the traversal callback, before the validity test;
\* blockId counts every extractable node, valid or not
candidateBlocks(file) ==
  LET cands == SelectSeq(traverseAST(file.ast), isExtractableNode)
  IN  [i \in 1..Len(cands) |->
         createCodeBlock(file, cands[i], <<file.path, i - 1>>)]

\* candidateBlocks tabulated over the files of the model (path, content)
\* (@@ makes the table an explicit function, computed once)
CandidateTable ==
  [pk \in Paths \X AstKinds |-> candidateBlocks(ParsedFile(pk[1], pk[2]))]
  @@ [pk \in {} |-> <<>>]

extractCodeBlocks(cfg, file) ==
  SelectSeq(CandidateTable[<<file.path, file.kind>>],
            LAMBDA b : isValidBlock(cfg, b))

----------------------------------------------------------------------------
(* DuplicationDetector: comparison *)

\* Variant that counts every occurrence in tokens1 of a token of tokens2
findCommonTokensAll(tokens1, tokens2) ==
  Len(SelectSeq(tokens1, LAMBDA t : t \in Range(tokens2)))

\* the number of distinct tokens of tokens1 that tokens2 has too
findCommonTokens(tokens1, tokens2) ==
  Cardinality(Range(tokens1) \cap Range(tokens2))

calculateSimilarity(block1, block2) ==
  IF block1.hash = block2.hash THEN Frac(1, 1)
  ELSE IF Len(block1.tokens) = 0 \/ Len(block2.tokens) = 0 THEN Frac(0, 1)
  ELSE Frac(findCommonTokens(block1.tokens, block2.tokens),
            Max(Len(block1.tokens), Len(block2.tokens)))

\* key1 / key2 of deduplicateMatches: file and start line of both blocks
MatchKey(b1, b2) == <<b1.filePath, b1.startLine, b2.filePath, b2.startLine>>

\* the Map keeps the first match of every key, in insertion order
RECURSIVE DedupFrom(_, _, _)
DedupFrom(duplications, keys, kept) ==
  Bind(<<duplications, keys, kept>>, LAMBDA a :
    IF a[1] = <<>> THEN a[3]
    ELSE LET d    == Head(a[1])
             key1 == MatchKey(d.block1, d.block2)
             key2 == MatchKey(d.block2, d.block1)
         IN  IF key1 \notin a[2] /\ key2 \notin a[2]
             THEN DedupFrom(Tail(a[1]), a[2] \cup {key1}, Append(a[3], d))
             ELSE DedupFrom(Tail(a[1]), a[2], a[3]))

deduplicateMatches(duplications) == DedupFrom(duplications, {}, <<>>)

\* Variant that only skips the block itself, not the rest of its file
SkipPairIdOnly(block1, block2) == block1.id = block2.id

\* the `continue` of the inner loop
SkipPair(block1, block2) ==
  block1.id = block2.id \/ block1.filePath = block2.filePath

\* all: this.codeBlocks at the time of the call (already holding currentBlocks)
findDuplications(cfg, currentBlocks, all) ==
  LET threshold == getThreshold(cfg, "similarityThreshold", DefaultSimilarityThreshold)
      Pair(block1, block2) ==
        IF SkipPair(block1, block2) THEN <<>>
        ELSE Bind(calculateSimilarity(block1, block2), LAMBDA similarity :
               IF FracGE(similarity, threshold)
               THEN << [block1 |-> block1, block2 |-> block2,
                        similarity |-> similarity,
                        duplicatedLines |->
                          Min(block1.endLine - block1.startLine + 1,
                              block2.endLine - block2.startLine + 1)] >>
               ELSE <<>>)
      duplications ==
        FlatSeq([i \in 1..Len(currentBlocks) |->
                   FlatSeq([j \in 1..Len(all) |-> Pair(currentBlocks[i], all[j])])])
  IN  deduplicateMatches(duplications)

getSeverityBySimilarity(similarity, duplicatedLines) ==
  IF FracGE(similarity, Frac(95, 100)) /\ duplicatedLines >= 20 THEN "critical"
  ELSE IF FracGE(similarity, Frac(90, 100)) /\ duplicatedLines >= 15 THEN "high"
  ELSE IF FracGE(similarity, Frac(85, 100)) /\ duplicatedLines >= 10 THEN "medium"
  ELSE "low"

\* BaseDetector.createLocation
createLocation(file, node) ==
  [file |-> file.path,
   line |-> IF node.loc = NoLoc THEN 1 ELSE node.loc.start,
   endLine |-> node.loc.end]

\* The issue keeps what its title and description are built from; its id
\* (detector name, clock and a random suffix) is not modelled.
createDuplicationIssue(file, duplication) ==
  LET otherFile == IF duplication.block2.filePath = file.path
                   THEN duplication.block1 ELSE duplication.block2
  IN  [category |-> "duplication",
       severity |-> getSeverityBySimilarity(duplication.similarity,
                                            duplication.duplicatedLines),
       title |-> RoundPct(duplication.similarity),
       description |-> [duplicatedLines |-> duplication.duplicatedLines,
                        filePath |-> otherFile.filePath,
                        startLine |-> otherFile.startLine,
                        endLine |-> otherFile.endLine],
       location |-> createLocation(file, duplication.block1.node),
       rule |-> "codigo-duplicado"]

----------------------------------------------------------------------------
(* DuplicationDetector.detect / reset / getStats *)

\* Where an exception is raised inside the try block of detect():
\*   "extract" - while traversing the tree / extracting the blocks (a tree
\*               nested too deeply for the recursive traversal)
\*   "issue2"  - while building the second issue
FailPoints == {"none", "extract", "issue2"}

FailIssueIndex(fail) ==
  CASE fail = "issue1" -> 1 [] fail = "issue2" -> 2 [] OTHER -> 0

\* Variant of detect() that looks for matches before it records the blocks
detectCompareFirst(cfg, blocks, processed, file, fail) ==
  IF ~isEnabled(cfg) \/ fail = "extract"
  THEN [issues |-> <<>>, duplications |-> <<>>,
        codeBlocks |-> blocks, processedFiles |-> processed]
  ELSE
    LET fileBlocks   == extractCodeBlocks(cfg, file)
        duplications == findDuplications(cfg, fileBlocks, blocks)
        k            == FailIssueIndex(fail)
        thrown       == k >= 1 /\ k <= Len(duplications)
        built        == IF thrown THEN k - 1 ELSE Len(duplications)
    IN  [issues |-> [i \in 1..built |-> createDuplicationIssue(file, duplications[i])],
         duplications |-> duplications,
         codeBlocks |-> IF thrown THEN blocks ELSE blocks \o fileBlocks,
         processedFiles |-> IF thrown THEN processed ELSE processed \cup {file.path}]

\* detect(file): the value returned and the detector state it leaves.
\* A disabled detector returns [] at once.  Inside the try block the blocks
\* are extracted, appended to this.codeBlocks and the path is added to
\* this.processedFiles; then the matches are searched and one issue is
\* pushed per match.  An exception is caught, and the issues pushed so far
\* are returned.
detect(cfg, blocks, processed, file, fail) ==
  IF ~isEnabled(cfg)
  THEN [issues |-> <<>>, duplications |-> <<>>,
        codeBlocks |-> blocks, processedFiles |-> processed]
  ELSE IF fail = "extract"
  THEN [issues |-> <<>>, duplications |-> <<>>,
        codeBlocks |-> blocks, processedFiles |-> processed]
  ELSE
    LET fileBlocks   == extractCodeBlocks(cfg, file)
        all          == blocks \o fileBlocks
        duplications == findDuplications(cfg, fileBlocks, all)
        k            == FailIssueIndex(fail)
        built        == IF k >= 1 /\ k <= Len(duplications)
                        THEN k - 1 ELSE Len(duplications)
    IN  [issues |-> [i \in 1..built |-> createDuplicationIssue(file, duplications[i])],
         duplications |-> duplications,
         codeBlocks |-> all,
         processedFiles |-> processed \cup {file.path}]

getStats ==
  [totalBlocks |-> Len(codeBlocks), processedFiles |-> Cardinality(processedFiles)]

----------------------------------------------------------------------------
(* SpecDup: a caller drives one detector with detect() and reset() *)

\* Configurations handed to the constructor
DupConfigs ==
  { [thresholds |-> [minLines |-> 3, minTokens |-> 10,
                     similarityThreshold |-> Frac(1, 2)]],
    [thresholds |-> [minLines |-> 3, minTokens |-> 10]],
    [thresholds |-> [minLines |-> 3, minTokens |-> 10,
                     similarityThreshold |-> Frac(1, 1)]],
    [enabled |-> TRUE],
    [enabled |-> FALSE,
     thresholds |-> [minLines |-> 3, minTokens |-> 10]] }

\* The files handed to detect(): path and content
DupFiles ==
  { <<"a.js", "f1">>, <<"b.js", "f1r">>, <<"b.js", "f2">>,
    <<"c.js", "two">>, <<"c.js", "cx">> }

NoCall == [op |-> "none", path |-> None, kind |-> None, fail |-> "none"]

\* DEFAULT_CONFIG as the class initialises it (detector thresholds only)
ConfigManagerDefaults ==
  [complexity  |-> [function |-> 10, file |-> 20],
   duplication |-> [minLines |-> 6, minTokens |-> 50]]

CfgIdle ==
  /\ DEFAULT_CONFIG = ConfigManagerDefaults
  /\ rawConfig = None /\ loadedConfig = None /\ nLoads = 0

\* the properties of an Issue; all but codeSnippet are required
RequiredFields ==
  {"id", "category", "severity", "title", "description", "suggestion",
   "location", "rule"}
IssueFields == RequiredFields \cup {"codeSnippet"}

\* private issue: Partial<Issue> = {}
IssueIdle ==
  /\ partialIssue = [f \in IssueFields |-> Absent]
  /\ buildResult = [called |-> FALSE]

\* no ReportBuilder has been created
BuilderIdle == builderReport = None /\ returned = [built |-> FALSE]

\* no Analyzer is being constructed
CtorIdle ==
  revisorConfig = "unset" /\ configLoad = "none" /\ caller = [pc |-> "idle"]

SideIdle == CfgIdle /\ IssueIdle /\ BuilderIdle /\ CtorIdle

\* The variables of an analyze() run while no run is modelled
RunIdle ==
  /\ pc = "idle" /\ env = None /\ fstate = <<>>
  /\ work = <<>> /\ settled = <<>> /\ batchStart = 0 /\ fileAnalyses = <<>>
  /\ report = None /\ exitCode = -1 /\ order = <<>>
  /\ dupInstance = TRUE /\ run = 0 /\ resetDone = FALSE /\ firstSummary = None

ScoreIdle == scoreIn = None /\ scoreOut = -1

TokIdle ==
  /\ treeA = None /\ treeB = None /\ tokResult = [done |-> FALSE]
  /\ ScoreIdle

DrvOnlyIdle ==
  /\ lastCall = NoCall /\ lastIssues = <<>> /\ lastMatches = <<>>
  /\ calls = <<>> /\ nCalls = 0

DrvIdle == DrvOnlyIdle /\ SideIdle

InitDup ==
  /\ \E c \in DupConfigs : dupConfig = DuplicationDetector(c)
  /\ codeBlocks = <<>>
  /\ processedFiles = {}
  /\ DrvIdle /\ TokIdle /\ RunIdle

Detect(path, kind, fail) ==
  /\ nCalls < MaxCalls
  /\ LET r == detect(dupConfig, codeBlocks, processedFiles,
                     ParsedFile(path, kind), fail)
     IN  /\ codeBlocks' = r.codeBlocks
         /\ processedFiles' = r.processedFiles
         /\ lastIssues' = r.issues
         /\ lastMatches' = r.duplications
  /\ lastCall' = [op |-> "detect", path |-> path, kind |-> kind, fail |-> fail]
  /\ calls' = Append(calls, [path |-> path, kind |-> kind, fail |-> fail])
  /\ nCalls' = nCalls + 1
  /\ UNCHANGED <<dupConfig, tokVars, runVars>>

\* reset(): this.codeBlocks = []; this.processedFiles.clear()
Reset ==
  /\ nCalls < MaxCalls
  /\ codeBlocks' = <<>>
  /\ processedFiles' = {}
  /\ lastCall' = [op |-> "reset", path |-> None, kind |-> None, fail |-> "none"]
  /\ lastIssues' = <<>>
  /\ lastMatches' = <<>>
  /\ calls' = <<>>
  /\ nCalls' = nCalls + 1
  /\ UNCHANGED <<dupConfig, tokVars, runVars>>

NextDup ==
  \/ \E f \in DupFiles, fail \in FailPoints : Detect(f[1], f[2], fail)
  \/ Reset

SpecDup == InitDup /\ [][NextDup]_vars

----------------------------------------------------------------------------
(* ComplexityDetector *)

DefaultFunctionComplexity == 10
DefaultFileComplexity == 20

\* Math.round(a / b) for a >= 0, b > 0
RoundDiv(a, b) == (2 * a + b) \div (2 * b)

isFunctionNode(node) ==
  node.type \in {"FunctionDeclaration", "FunctionExpression",
                 "ArrowFunctionExpression", "MethodDefinition"}

complexityNodes ==
  {"IfStatement", "ConditionalExpression", "SwitchCase", "ForStatement",
   "ForInStatement", "ForOfStatement", "WhileStatement", "DoWhileStatement",
   "CatchClause", "LogicalExpression"}

\* traverseForComplexity visits the same nodes as traverseAST
calculateCyclomaticComplexity(functionNode) ==
  Bind(traverseAST(functionNode), LAMBDA nodes :
    1 + SumSeq([i \in 1..Len(nodes) |->
          IF nodes[i].type \in complexityNodes
          THEN 1 + (IF nodes[i].type = "LogicalExpression"
                       /\ nodes[i].operator \in {"&&", "||"} THEN 1 ELSE 0)
          ELSE 0]))

getSeverityByComplexity(complexity) ==
  IF complexity >= 20 THEN "critical"
  ELSE IF complexity >= 15 THEN "high"
  ELSE IF complexity >= 10 THEN "medium"
  ELSE "low"

createFunctionComplexityIssue(file, node, complexity) ==
  [category |-> "complexity",
   severity |-> getSeverityByComplexity(complexity),
   title |-> complexity,
   location |-> createLocation(file, node),
   rule |-> "complexidade-ciclomatica"]

createFileComplexityIssue(file, complexity) ==
  [category |-> "complexity",
   severity |-> "medium",
   title |-> complexity,
   location |-> [file |-> file.path, line |-> 1, endLine |-> 0],
   rule |-> "complexidade-arquivo"]

\* the function nodes of the tree, in traversal order
FunctionNodes(ast) == SelectSeq(traverseAST(ast), isFunctionNode)

\* issues pushed by this.traverseAST(file.ast, file, issues)
FunctionComplexityIssues(cfg, file) ==
  LET threshold == getThreshold(cfg, "function", DefaultFunctionComplexity)
  IN  Bind(SelectSeq(FunctionNodes(file.ast),
                     LAMBDA n : calculateCyclomaticComplexity(n) > threshold),
           LAMBDA over :
             [i \in 1..Len(over) |->
                createFunctionComplexityIssue(file, over[i],
                                              calculateCyclomaticComplexity(over[i]))])

\* calculateFileComplexity first re-runs traverseAST with a null file: as
\* soon as one function is over the threshold, building its issue reads
\* file.path of null and throws
FileComplexityThrows(cfg, ast) ==
  \E n \in Range(FunctionNodes(ast)) :
    calculateCyclomaticComplexity(n)
      > getThreshold(cfg, "function", DefaultFunctionComplexity)

calculateFileComplexity(ast) ==
  Bind(FunctionNodes(ast), LAMBDA fns :
    LET totalComplexity ==
          SumSeq([i \in 1..Len(fns) |-> calculateCyclomaticComplexity(fns[i])])
    IN  IF Len(fns) > 0 THEN RoundDiv(totalComplexity, Len(fns)) ELSE 0)

\* ComplexityDetector.detect
complexityDetect(cfg, parsedFile) ==
  IF ~isEnabled(cfg) THEN <<>>
  ELSE Bind(parsedFile, LAMBDA file :
         Bind(FunctionComplexityIssues(cfg, file), LAMBDA issues :
           IF FileComplexityThrows(cfg, file.ast) THEN issues
           ELSE Bind(calculateFileComplexity(file.ast), LAMBDA fileComplexity :
                  IF fileComplexity > getThreshold(cfg, "file", DefaultFileComplexity)
                  THEN Append(issues, createFileComplexityIssue(file, fileComplexity))
                  ELSE issues)))

----------------------------------------------------------------------------
(* Detector registry *)

\* Object.entries(JavaScriptDetectors), in insertion order
JavaScriptDetectors == <<"complexity", "naming", "size", "duplication">>

\* createDetectorsForLanguage: the names of the detectors of the returned
\* list (a detector is created unless its configuration says enabled: false)
createDetectorsForLanguage(language, config) ==
  IF language \in {"javascript", "typescript"}
  THEN SelectSeq(JavaScriptDetectors, LAMBDA name : config[name].enabled # FALSE)
  ELSE <<>>

----------------------------------------------------------------------------
(* Score and report.  Scores are kept in hundredths (score * 100). *)

SeverityPenalty(severity) ==
  CASE severity = "critical" -> 10 [] severity = "high" -> 5
    [] severity = "medium" -> 2 [] severity = "low" -> 1 [] OTHER -> 0

\* Variant without Math.max(0, ...)
calculateFileScoreUnclamped(issues, linesOfCode) ==
  IF Len(issues) = 0 THEN 10000
  ELSE LET penalty == SumSeq([i \in 1..Len(issues) |-> SeverityPenalty(issues[i].severity)])
           den     == 1000 + Min(linesOfCode, 200)
           num     == 10000 * den - 100000 * penalty
       IN  IF num <= 0 THEN -RoundDiv(-num, den) ELSE RoundDiv(num, den)

\* calculateFileScore: 100 when there is no issue; otherwise
\* max(0, 100 - penalty / (1 + min(linesOfCode / 100, 2) * 0.1)),
\* rounded to 2 decimals
calculateFileScore(issues, linesOfCode) ==
  IF Len(issues) = 0 THEN 10000
  ELSE LET penalty == SumSeq([i \in 1..Len(issues) |-> SeverityPenalty(issues[i].severity)])
           den     == 1000 + Min(linesOfCode, 200)   \* (1 + adj * 0.1) * 1000
           num     == 10000 * den - 100000 * penalty \* score * 100 * den
       IN  IF num <= 0 THEN 0 ELSE RoundDiv(num, den)

\* Analyzer.getRelativePath: path.relative(process.cwd(), absolutePath)
getRelativePath(absolutePath) ==
  CASE absolutePath = "/w/a.js" -> "a.js" [] absolutePath = "/w/b.js" -> "b.js"
    [] absolutePath = "/w/c.js" -> "c.js" [] absolutePath = "/w/d.js" -> "d.js"
    [] absolutePath = "/w/e.js" -> "e.js" [] OTHER -> absolutePath

IssueCategory == <<"complexity", "naming", "size", "duplication", "best_practices">>
IssueSeverity == <<"low", "medium", "high", "critical">>

\* Array.prototype.sort((a, b) => key(b) - key(a)), which is stable, on a
\* sequence of [k |-> key, v |-> element]
RECURSIVE SortDescKeyed(_)
SortDescKeyed(seq) ==
  Bind(seq, LAMBDA s :
    IF s = <<>> THEN <<>>
    ELSE Bind(SortDescKeyed(SubSeq(s, 1, Len(s) - 1)), LAMBDA sorted :
           LET x   == s[Len(s)]
               pos == Cardinality({ i \in DOMAIN sorted : sorted[i].k >= x.k })
           IN  SubSeq(sorted, 1, pos) \o <<x>> \o SubSeq(sorted, pos + 1, Len(sorted))))

\* ReportBuilder: the initial this.report
NewReport ==
  [summary |-> [totalFiles |-> 0, totalIssues |-> 0, totalLinesOfCode |-> 0,
                overallScore |-> 0, options |-> [language |-> ""]],
   files |-> <<>>, categories |-> <<>>, topIssues |-> <<>>]

withOptions(rep, options) == [rep EXCEPT !.summary.options = options]

calculateOverallScore(files) ==
  IF Len(files) = 0 THEN 10000
  ELSE RoundDiv(SumSeq([i \in 1..Len(files) |-> files[i].score]), Len(files))

updateCategories(issues) ==
  LET summary(category) ==
        [category |-> category,
         count |-> Len(SelectSeq(issues, LAMBDA i : i.category = category)),
         severity |-> [sv \in Range(IssueSeverity) |->
                         Len(SelectSeq(issues, LAMBDA i :
                               i.category = category /\ i.severity = sv))]]
      all == [k \in 1..Len(IssueCategory) |-> summary(IssueCategory[k])]
  IN  Bind(SelectSeq(all, LAMBDA c : c.count > 0), LAMBDA present :
        Bind(SortDescKeyed([i \in 1..Len(present) |->
                              [k |-> present[i].count, v |-> present[i]]]),
             LAMBDA sorted : [i \in 1..Len(sorted) |-> sorted[i].v]))

severityWeight(severity) ==
  CASE severity = "critical" -> 4 [] severity = "high" -> 3
    [] severity = "medium" -> 2 [] severity = "low" -> 1

TopIssuesCount == 10

updateTopIssues(issues) ==
  Bind(SortDescKeyed([i \in 1..Len(issues) |->
                        [k |-> severityWeight(issues[i].severity), v |-> issues[i]]]),
       LAMBDA sorted :
         [i \in 1..Min(Len(sorted), TopIssuesCount) |-> sorted[i].v])

\* Variant whose category summaries cover only the file just added
addFileLastOnly(rep, fileAnalysis) ==
  Bind(Append(rep.files, fileAnalysis), LAMBDA files :
    Bind(FlatSeq([i \in 1..Len(files) |-> files[i].issues]), LAMBDA allIssues :
      [summary |-> [totalFiles |-> Len(files),
                    totalIssues |-> Len(allIssues),
                    totalLinesOfCode |-> SumSeq([i \in 1..Len(files) |-> files[i].linesOfCode]),
                    overallScore |-> calculateOverallScore(files),
                    options |-> rep.summary.options],
       files |-> files,
       categories |-> updateCategories(fileAnalysis.issues),
       topIssues |-> updateTopIssues(allIssues)]))

\* addFile: push the file, then updateSummary
addFile(rep, fileAnalysis) ==
  Bind(Append(rep.files, fileAnalysis), LAMBDA files :
    Bind(FlatSeq([i \in 1..Len(files) |-> files[i].issues]), LAMBDA allIssues :
      [summary |-> [totalFiles |-> Len(files),
                    totalIssues |-> Len(allIssues),
                    totalLinesOfCode |-> SumSeq([i \in 1..Len(files) |-> files[i].linesOfCode]),
                    overallScore |-> calculateOverallScore(files),
                    options |-> rep.summary.options],
       files |-> files,
       categories |-> updateCategories(allIssues),
       topIssues |-> updateTopIssues(allIssues)]))

RECURSIVE addFiles(_, _)
addFiles(rep, analyses) ==
  Bind(<<rep, analyses>>, LAMBDA a :
    IF a[2] = <<>> THEN a[1]
    ELSE addFiles(addFile(a[1], Head(a[2])), Tail(a[2])))

createEmptyReport(options) == withOptions(NewReport, options)

\* cli: getExitCode(score, totalIssues)
getExitCode(score, totalIssues) ==
  IF totalIssues = 0 THEN 0
  ELSE IF score >= 8000 THEN 0
  ELSE IF score >= 6000 THEN 1
  ELSE 2


----------------------------------------------------------------------------
(* Spec: one Analyzer.analyze() run, called by the `analisar` command.     *)
(* The statements of the command that precede the call (constructing the   *)
(* Analyzer, reading its configuration) are the subject of SpecCtor.       *)
(*                                                                         *)
(* pc:     "start"    analyze() not yet entered                            *)
(*         "await"    suspended on Promise.allSettled(batch)               *)
(*         "returned" analyze() returned `report`                          *)
(*         "threw"    analyze() rejected                                   *)
(*         "exited"   the command called process.exit(exitCode)            *)
(* fstate: "unstarted" | "reading" (suspended on parseFile) | "detect"     *)
(*         (in the detector loop) | "dupFind" (inside the duplication      *)
(*         detector's detect(), blocks appended, matches not yet           *)
(*         searched) | "settled"                                           *)

\* The input list returned by getFilesToAnalyze, and what each file holds
FileList ==
  << [path |-> "/w/a.js", kind |-> "f1"],
     [path |-> "/w/b.js", kind |-> "f1rs"],
     [path |-> "/w/c.js", kind |-> "cx"],
     [path |-> "/w/d.js", kind |-> "f2"],
     [path |-> "/w/e.js", kind |-> "f1"] >>

Disabled == [enabled |-> FALSE, thresholds |-> [unused |-> 0]]

\* revisorConfig.detectors of the modelled runs (naming and size are
\* switched off in all of them)
DetectorConfigs ==
  { [complexity |-> Disabled, naming |-> Disabled, size |-> Disabled,
     duplication |-> Disabled],
    [complexity |-> Disabled, naming |-> Disabled, size |-> Disabled,
     duplication |-> [enabled |-> TRUE,
                      thresholds |-> [minLines |-> 3, minTokens |-> 10]]],
    [complexity |-> [enabled |-> TRUE,
                     thresholds |-> [function |-> 2, file |-> 3]],
     naming |-> Disabled, size |-> Disabled,
     duplication |-> [enabled |-> TRUE,
                      thresholds |-> [minLines |-> 3, minTokens |-> 10]]] }

\* What the read of a file does: it completes and the file parses ("ok"),
\* parseFile rejects ("fail"), or the read never completes ("stuck")
Outcomes == {"ok", "fail", "stuck"}

\* <<file index, detector>> pairs on which detect() throws to analyzeFile
ThrowSets == { {}, {<<3, "duplication">>}, {<<2, "complexity">>} }

\* performance.maxConcurrentFiles
BatchSizes == {1, 2}

Envs ==
  { e \in [pathExists : BOOLEAN, language : {"javascript", "python"},
           detectors : DetectorConfigs, n : 0..MaxFiles,
           outcome : UNION { [1..k -> Outcomes] : k \in 0..MaxFiles },
           throws : ThrowSets, maxConcurrentFiles : BatchSizes] :
      /\ DOMAIN e.outcome = 1..e.n
      /\ Cardinality({ f \in 1..e.n : e.outcome[f] # "ok" }) <= MaxFaulty
      /\ \A t \in e.throws : t[1] <= e.n
      \* a missing path or an unsupported language is modelled once
      /\ ~e.pathExists =>
           e.n = 0 /\ e.language = "javascript" /\ e.throws = {}
           /\ e.maxConcurrentFiles = 1 /\ ~e.detectors.duplication.enabled
      /\ e.language = "python" =>
           e.throws = {} /\ e.maxConcurrentFiles = 1
           /\ e.detectors.complexity.enabled
           /\ \A f \in 1..e.n : e.outcome[f] = "ok" }

NoWork ==
  [idx |-> 0, allIssues |-> <<>>, log |-> <<>>, fileBlocks |-> <<>>,
   before |-> <<>>, failed |-> FALSE]

Pending == [done |-> FALSE, value |-> <<>>]

\* a fulfilled promise: value is <<>> for null, <<fileAnalysis>> otherwise
Fulfilled(value) == [done |-> TRUE, value |-> value]

Init ==
  /\ env \in Envs
  /\ pc = "start"
  /\ fstate = [f \in 1..env.n |-> "unstarted"]
  /\ work = [f \in 1..env.n |-> NoWork]
  /\ settled = [f \in 1..env.n |-> Pending]
  /\ batchStart = 0
  /\ fileAnalyses = <<>>
  /\ report = NewReport
  /\ exitCode = -1
  /\ order = <<>>
  /\ dupInstance = FALSE
  /\ run = 1
  /\ resetDone = FALSE
  /\ firstSummary = None
  /\ dupConfig = defaultConfig
  /\ codeBlocks = <<>>
  /\ processedFiles = {}
  /\ DrvIdle /\ TokIdle

analysisOptions == [language |-> env.language]

detectors == createDetectorsForLanguage(env.language, env.detectors)

\* const batchSize = this.config.performance?.maxConcurrentFiles || 10
batchSize == IF env.maxConcurrentFiles = 0 THEN 10 ELSE env.maxConcurrentFiles

\* Variant in which detect() would give the thread back between appending its
\* blocks and searching the matches
AwaitPointsAsyncDetect == {"reading", "dupFind"}

\* The positions at which analyzeFile() is suspended and other callbacks
\* may run: only `await this.parser.parseFile(filePath)`; the detector loop
\* and detect() contain no await
AwaitPoints == {"reading"}

\* files whose synchronous segment is on the stack
OnStack == { f \in 1..env.n : fstate[f] \in {"detect", "dupFind"} \ AwaitPoints }

\* a callback of file f may run: nothing else is on the stack
MayRun(f) == OnStack \subseteq {f}

\* Variant without the inner try/catch: the throw reaches the outer catch
\* of analyzeFile()
detectorThrewUncaught(w, name) ==
  [w EXCEPT !.idx = @ + 1,
            !.log = Append(@, [detector |-> name, threw |-> TRUE, issues |-> <<>>]),
            !.failed = TRUE]

\* detector.detect() threw: the inner catch logs a warning and the loop
\* goes on with the next detector
detectorThrew(w, name) ==
  [w EXCEPT !.idx = @ + 1,
            !.log = Append(@, [detector |-> name, threw |-> TRUE, issues |-> <<>>])]

\* allIssues.push(...issues)
detectorReturned(w, name, issues) ==
  [w EXCEPT !.idx = @ + 1,
            !.allIssues = @ \o issues,
            !.log = Append(@, [detector |-> name, threw |-> FALSE, issues |-> issues])]

\* the FileAnalysis analyzeFile() resolves to
fileAnalysis(f, w) ==
  LET parsedFile == ParsedFile(FileList[f].path, FileList[f].kind)
  IN  [path |-> getRelativePath(FileList[f].path),
       linesOfCode |-> parsedFile.linesOfCode,
       issues |-> w.allIssues,
       score |-> calculateFileScore(w.allIssues, parsedFile.linesOfCode)]


\* Variant of the fold that takes the settled values in the order in which
\* the reads completed
batchValuesAsCompleted(results, from, to, completed) ==
  FlatSeq([k \in 1..Len(completed) |->
             IF completed[k] >= from /\ completed[k] <= to
             THEN results[completed[k]].value ELSE <<>>])

\* batchResults.forEach((result, index) => ...): the fulfilled, non-null
\* values of the files from..to, in index order
batchValues(results, from, to, completed) ==
  FlatSeq([k \in 1..(to - from + 1) |-> results[from + k - 1].value])

\* analyze() up to its first suspension.  validatePath throws for a missing
\* path; an empty file list and an empty detector list both return
\* createEmptyReport(); otherwise analyzeFile() is called for every file of
\* the list (filePaths.map), each one running up to its await of parseFile,
\* and analyze() suspends on the first batch.
Begin ==
  /\ pc = "start"
  /\ IF ~env.pathExists
     THEN /\ pc' = "threw"
          /\ UNCHANGED <<report, fstate, dupConfig, dupInstance>>
     ELSE IF env.n = 0
     THEN /\ pc' = "returned"
          /\ report' = createEmptyReport(analysisOptions)
          /\ UNCHANGED <<fstate, dupConfig, dupInstance>>
     ELSE IF Len(detectors) = 0
     THEN /\ pc' = "returned"
          /\ report' = createEmptyReport(analysisOptions)
          /\ UNCHANGED <<fstate, dupConfig, dupInstance>>
     ELSE /\ pc' = "await"
          /\ fstate' = [f \in 1..env.n |-> "reading"]
          \* the duplication detector is created once per process and
          \* reused, with the configuration of its creation, ever after
          /\ dupConfig' = IF "duplication" \in Range(detectors) /\ ~dupInstance
                          THEN DuplicationDetector(env.detectors.duplication)
                          ELSE dupConfig
          /\ dupInstance' = (dupInstance \/ "duplication" \in Range(detectors))
          /\ UNCHANGED report
  /\ UNCHANGED <<env, work, settled, batchStart, fileAnalyses, exitCode, order,
                 codeBlocks, processedFiles, drvVars, tokVars,
                 run, resetDone, firstSummary>>

\* The read of file f completes.  A rejected parseFile is caught by the
\* outer catch of analyzeFile(), which resolves to null; otherwise
\* analyzeFile() resumes and enters the detector loop.
ReadComplete(f) ==
  /\ pc = "await"
  /\ fstate[f] = "reading"
  /\ MayRun(f)
  /\ env.outcome[f] # "stuck"
  /\ order' = Append(order, f)
  /\ IF env.outcome[f] = "fail"
     THEN /\ fstate' = [fstate EXCEPT ![f] = "settled"]
          /\ settled' = [settled EXCEPT ![f] = Fulfilled(<<>>)]
          /\ UNCHANGED work
     ELSE /\ fstate' = [fstate EXCEPT ![f] = "detect"]
          /\ work' = [work EXCEPT ![f].idx = 1]
          /\ UNCHANGED settled
  /\ UNCHANGED <<pc, env, batchStart, fileAnalyses, report, exitCode,
                 dupVars, drvVars, tokVars, procVars>>

\* One iteration of `for (const detector of detectors)`.  The duplication
\* detector's detect() is taken in two steps (see DupFind); this is its
\* first: extract the blocks, append them, record the path.
RunDetector(f) ==
  /\ pc = "await"
  /\ fstate[f] = "detect"
  /\ MayRun(f)
  /\ work[f].idx <= Len(detectors)
  /\ LET name       == detectors[work[f].idx]
         parsedFile == ParsedFile(FileList[f].path, FileList[f].kind)
     IN  IF <<f, name>> \in env.throws
         THEN /\ work' = [work EXCEPT ![f] = detectorThrew(@, name)]
              /\ UNCHANGED <<fstate, codeBlocks, processedFiles>>
         ELSE IF name = "complexity"
         THEN /\ work' = [work EXCEPT ![f] =
                    detectorReturned(@, name,
                                     complexityDetect(env.detectors.complexity, parsedFile))]
              /\ UNCHANGED <<fstate, codeBlocks, processedFiles>>
         ELSE IF name = "duplication" /\ isEnabled(dupConfig)
         THEN LET fileBlocks == extractCodeBlocks(dupConfig, parsedFile)
              IN  /\ codeBlocks' = codeBlocks \o fileBlocks
                  /\ processedFiles' = processedFiles \cup {parsedFile.path}
                  /\ work' = [work EXCEPT ![f].fileBlocks = fileBlocks,
                                          ![f].before = codeBlocks]
                  /\ fstate' = [fstate EXCEPT ![f] = "dupFind"]
         ELSE /\ work' = [work EXCEPT ![f] = detectorReturned(@, name, <<>>)]
              /\ UNCHANGED <<fstate, codeBlocks, processedFiles>>
  /\ UNCHANGED <<pc, env, settled, batchStart, fileAnalyses, report, exitCode,
                 order, dupConfig, drvVars, tokVars, procVars>>

\* Second step of the duplication detector's detect(): findDuplications over
\* this.codeBlocks as it is now, one issue per match, return to the loop
DupFind(f) ==
  /\ pc = "await"
  /\ fstate[f] = "dupFind"
  /\ MayRun(f)
  /\ LET parsedFile   == ParsedFile(FileList[f].path, FileList[f].kind)
         duplications == findDuplications(dupConfig, work[f].fileBlocks, codeBlocks)
         issues       == [i \in 1..Len(duplications) |->
                            createDuplicationIssue(parsedFile, duplications[i])]
     IN  work' = [work EXCEPT ![f] =
                    [detectorReturned(@, "duplication", issues)
                       EXCEPT !.fileBlocks = <<>>, !.before = <<>>]]
  /\ fstate' = [fstate EXCEPT ![f] = "detect"]
  /\ UNCHANGED <<pc, env, settled, batchStart, fileAnalyses, report, exitCode,
                 order, dupVars, drvVars, tokVars, procVars>>

\* The loop is over: calculateFileScore, and the promise resolves
Finish(f) ==
  /\ pc = "await"
  /\ fstate[f] = "detect"
  /\ MayRun(f)
  /\ work[f].idx > Len(detectors)
  /\ settled' = [settled EXCEPT ![f] =
                   IF work[f].failed THEN Fulfilled(<<>>)
                   ELSE Fulfilled(<<fileAnalysis(f, work[f])>>)]
  /\ fstate' = [fstate EXCEPT ![f] = "settled"]
  /\ UNCHANGED <<pc, env, work, batchStart, fileAnalyses, report, exitCode,
                 order, dupVars, drvVars, tokVars, procVars>>

\* Promise.allSettled(batch) resolves: the results of the batch are folded
\* into fileAnalyses; then either the next batch is awaited or the report
\* is built and returned
BatchSettle ==
  /\ pc = "await"
  /\ OnStack = {}
  /\ LET from == batchStart + 1
         to   == Min(batchStart + batchSize, env.n)
         all  == fileAnalyses \o batchValues(settled, from, to, order)
     IN  /\ \A f \in from..to : fstate[f] = "settled"
         /\ fileAnalyses' = all
         /\ batchStart' = batchStart + batchSize
         /\ IF batchStart + batchSize < env.n
            THEN UNCHANGED <<pc, report>>
            ELSE /\ pc' = "returned"
                 /\ report' = addFiles(withOptions(NewReport, analysisOptions), all)
  /\ UNCHANGED <<env, fstate, work, settled, exitCode, order,
                 dupVars, drvVars, tokVars, procVars>>

\* The command that awaited analyze(): process.exit(getExitCode(...)) after
\* a report, process.exit(1) from its catch block
CommandExit ==
  /\ pc \in {"returned", "threw"}
  /\ pc' = "exited"
  /\ exitCode' = IF pc = "threw" THEN 1
                 ELSE getExitCode(report.summary.overallScore,
                                  report.summary.totalIssues)
  /\ UNCHANGED <<env, fstate, work, settled, batchStart, fileAnalyses, report,
                 order, dupVars, drvVars, tokVars, procVars>>

Next ==
  \/ Begin
  \/ \E f \in 1..env.n : ReadComplete(f)
  \/ \E f \in 1..env.n : RunDetector(f)
  \/ \E f \in 1..env.n : DupFind(f)
  \/ \E f \in 1..env.n : Finish(f)
  \/ BatchSettle
  \/ CommandExit

Spec == Init /\ [][Next]_vars

\* The event loop runs every callback that is ready, and a read that is not
\* stuck completes
FairSpec == Spec /\ WF_vars(Next)

----------------------------------------------------------------------------
(* SpecRuns: a program that calls analyze() again in the same process, on  *)
(* the same target, and may call resetDuplicationDetector() in between.    *)
(* The module-level duplicationDetectorInstance and its block collection   *)
(* live as long as the process does.                                       *)

\* The caller, holding the report of a run, calls analyze() once more
AnalyzeAgain ==
  /\ pc = "returned"
  /\ run < MaxRuns
  /\ run' = run + 1
  /\ firstSummary' = IF run = 1 THEN report.summary ELSE firstSummary
  /\ resetDone' = FALSE
  /\ pc' = "start"
  /\ fstate' = [f \in 1..env.n |-> "unstarted"]
  /\ work' = [f \in 1..env.n |-> NoWork]
  /\ settled' = [f \in 1..env.n |-> Pending]
  /\ batchStart' = 0
  /\ fileAnalyses' = <<>>
  /\ report' = NewReport
  /\ order' = <<>>
  /\ UNCHANGED <<env, exitCode, dupInstance, dupVars, drvVars, tokVars>>

\* resetDuplicationDetector(), called between two runs: reset() on the
\* instance if there is one
resetDuplicationDetector ==
  /\ pc = "start"
  /\ run > 1
  /\ ~resetDone
  /\ resetDone' = TRUE
  /\ IF dupInstance
     THEN codeBlocks' = <<>> /\ processedFiles' = {}
     ELSE UNCHANGED <<codeBlocks, processedFiles>>
  /\ UNCHANGED <<pc, env, fstate, work, settled, batchStart, fileAnalyses,
                 report, exitCode, order, dupInstance, run, firstSummary,
                 dupConfig, drvVars, tokVars>>

NextRuns ==
  \/ Next
  \/ AnalyzeAgain
  \/ resetDuplicationDetector

SpecRuns == Init /\ [][NextRuns]_vars


----------------------------------------------------------------------------
(* SpecTok: extractTokens, calculateHash and calculateSimilarity applied   *)
(* to two syntax trees                                                     *)

TokNames  == {"f", "h"}
TokParams == {<<"a">>, <<"b">>, <<"a", "b">>}
TokCalls  == {"g", "k"}

TokTrees ==
  { Func(f, ps, g, 2) : f \in TokNames, ps \in TokParams, g \in TokCalls }
  \cup { CommentedFunc(f, ps, "g", 2) : f \in TokNames, ps \in TokParams }
  \cup { Small(a, b) : a \in TokNames, b \in TokCalls }

InitTok ==
  /\ treeA \in TokTrees
  /\ treeB \in TokTrees
  /\ tokResult = [done |-> FALSE]
  /\ ScoreIdle
  /\ dupConfig = defaultConfig /\ codeBlocks = <<>> /\ processedFiles = {}
  /\ DrvIdle /\ RunIdle

\* createCodeBlock on both trees, then calculateSimilarity
Tokenize ==
  /\ ~tokResult.done
  /\ LET block1 == createCodeBlock([path |-> "a.js"], treeA, <<"a.js", 0>>)
         block2 == createCodeBlock([path |-> "b.js"], treeB, <<"b.js", 0>>)
     IN  tokResult' = [done |-> TRUE,
                       tokens1 |-> block1.tokens, tokens2 |-> block2.tokens,
                       hash1 |-> block1.hash, hash2 |-> block2.hash,
                       similarity |-> calculateSimilarity(block1, block2),
                       reverse |-> calculateSimilarity(block2, block1)]
  /\ UNCHANGED <<treeA, treeB, scoreVars, sideVars, dupVars, drvVars, runVars>>

NextTok == Tokenize

SpecTok == InitTok /\ [][NextTok]_vars

\* The tree with every name string replaced by one fixed name
RECURSIVE EraseNames(_)
EraseNames(n) ==
  [n EXCEPT !.name = IF n.name = Absent THEN Absent ELSE "_",
            !.kids = [i \in 1..Len(n.kids) |->
                        Kid(n.kids[i].key, EraseNames(n.kids[i].node))]]

DifferOnlyInNames(a, b) == EraseNames(a) = EraseNames(b)

----------------------------------------------------------------------------
(* Properties of Analyzer.analyze() *)

Files == 1..env.n

\* files whose analysis has been started and has not settled
InFlight == { f \in Files : fstate[f] \in {"reading", "detect", "dupFind"} }

\* the files that parse, in input order
OkFiles == SelectSeq([f \in Files |-> f], LAMBDA f : env.outcome[f] = "ok")

\* analyze() went past its input validation and analysed files
RanFiles == env.pathExists /\ env.n > 0 /\ Len(detectors) > 0

Returned == pc \in {"returned", "exited"}

\* C1: file analyses are issued one bounded batch at a time: at most
\* maxConcurrentFiles analyses are started and unsettled, and no file of a
\* later batch is started before the current batch has settled.
C1_BoundedBatches ==
  pc = "await" =>
    /\ Cardinality(InFlight) <= batchSize
    /\ \A f \in Files :
         f > batchStart + batchSize => fstate[f] = "unstarted"

\* C2: if the read of one file never completes, analyze() still eventually
\* returns a report: the stuck file is abandoned and the others are reported.
C2_StuckReadIsAbandoned ==
  (pc = "await" /\ \E f \in Files : env.outcome[f] = "stuck")
    ~> (Returned /\ Len(report.files) = Len(OkFiles))

\* C3: failures of single files and of single detectors never fail the run:
\* analyze() does not throw, the report holds exactly the files that parsed
\* and each of them carries the issues of every detector that did not throw
\* on it (every detector of the list was run on it).
C3_FailuresContained ==
  RanFiles =>
    /\ pc # "threw"
    /\ Returned =>
         /\ { report.files[i].path : i \in DOMAIN report.files }
              = { getRelativePath(FileList[f].path) : f \in Range(OkFiles) }
         /\ Len(report.files) = Len(OkFiles)
         /\ \A f \in Range(OkFiles) :
              /\ Len(work[f].log) = Len(detectors)
              /\ \A k \in DOMAIN work[f].log :
                   /\ work[f].log[k].detector = detectors[k]
                   /\ work[f].log[k].threw <=> <<f, detectors[k]>> \in env.throws
                   /\ (detectors[k] = "complexity" /\ ~work[f].log[k].threw) =>
                        work[f].log[k].issues =
                          complexityDetect(env.detectors.complexity,
                                           ParsedFile(FileList[f].path, FileList[f].kind))
              /\ \E i \in DOMAIN report.files :
                   /\ report.files[i].path = getRelativePath(FileList[f].path)
                   /\ report.files[i].issues =
                        FlatSeq([k \in 1..Len(work[f].log) |->
                                   IF work[f].log[k].threw THEN <<>>
                                   ELSE work[f].log[k].issues])

\* a run that returned although one file failed to parse and a detector
\* threw on a file that still reports the issues of another detector
C3_Witness ==
  /\ RanFiles /\ pc = "returned"
  /\ \E f \in Files : env.outcome[f] = "fail"
  /\ \E t \in env.throws :
       /\ env.outcome[t[1]] = "ok"
       /\ t[2] \in Range(detectors)
       /\ \E i \in DOMAIN report.files :
            /\ report.files[i].path = getRelativePath(FileList[t[1]].path)
            /\ report.files[i].issues # <<>>

\* C4: analyze() aborts the run when the target path does not exist or when
\* no detector is enabled/available for the language: it never returns a
\* report then, and the command ends with a non-zero exit code.
C4_FatalCasesAbort ==
  (~env.pathExists \/ Len(detectors) = 0) =>
    /\ pc # "returned"
    /\ pc = "exited" => exitCode # 0

\* C5: whatever the order in which the reads complete, Report.files is the
\* subsequence of the input list made of the files that succeeded.
C5_ReportOrderIsInputOrder ==
  (RanFiles /\ Returned) =>
    [i \in 1..Len(report.files) |-> report.files[i].path]
      = [i \in 1..Len(OkFiles) |-> getRelativePath(FileList[OkFiles[i]].path)]

\* a report of several files of one batch whose reads completed in another
\* order than the input order
C5_Witness ==
  /\ RanFiles /\ pc = "returned"
  /\ Len(report.files) >= 2
  /\ batchSize >= 2
  /\ \E i, j \in DOMAIN order :
       /\ i < j /\ order[i] > order[j] /\ order[i] <= 2
       /\ env.outcome[order[i]] = "ok" /\ env.outcome[order[j]] = "ok"

\* C6: a detect() call on the shared duplication detector runs to completion
\* before any other file's detect() starts: while a file is inside detect()
\* the shared collection is what it was at entry plus this file's blocks, and
\* no other file is in its detector loop.
C6_DetectNeverInterleaved ==
  \A f \in Files :
    fstate[f] = "dupFind" =>
      /\ codeBlocks = work[f].before \o work[f].fileBlocks
      /\ \A g \in Files \ {f} : fstate[g] \notin {"detect", "dupFind"}

\* a file inside detect() over a non-empty shared collection while the read
\* of another file is still pending
C6_Witness ==
  \E f, g \in Files :
    /\ fstate[f] = "dupFind" /\ work[f].before # <<>> /\ work[f].fileBlocks # <<>>
    /\ fstate[g] = "reading" /\ env.outcome[g] = "ok"


----------------------------------------------------------------------------
(* Properties of the duplication detector *)

IsDetect == lastCall.op = "detect"

\* the detect() calls before the last one, since the last reset()
EarlierCalls == IF calls = <<>> THEN <<>> ELSE SubSeq(calls, 1, Len(calls) - 1)

\* the blocks a call extracts when its extraction does not throw
BlocksOfCall(c) == extractCodeBlocks(dupConfig, ParsedFile(c.path, c.kind))

\* C7: no duplication issue emitted by detect() pairs two blocks of the same
\* file path, whatever calls (detect, reset, the same path again) came before
C7_NeverSameFile ==
  /\ \A i \in DOMAIN lastMatches :
       lastMatches[i].block1.filePath # lastMatches[i].block2.filePath
  /\ \A i \in DOMAIN lastIssues :
       lastIssues[i].location.file # lastIssues[i].description.filePath

\* C7 witness: detect() was given a path it had already processed, blocks of
\* that path are in the collection, and the call emitted an issue
C7_Witness ==
  /\ IsDetect
  /\ \E i \in DOMAIN EarlierCalls :
       /\ EarlierCalls[i].path = lastCall.path
       /\ EarlierCalls[i].fail # "extract"
       /\ Len(BlocksOfCall(EarlierCalls[i])) >= 2
  /\ lastIssues # <<>>

\* blocks with the same token sequence in an earlier file A and in the file
\* B of the last call, both meeting minLines and minTokens
SharedBlock(cA, cB) ==
  \E bA \in Range(BlocksOfCall(cA)), bB \in Range(BlocksOfCall(cB)) :
    bA.tokens = bB.tokens

\* C8 (as claimed): detect(A) then detect(B), different paths, no reset in
\* between, a block with the same token sequence in both: detect(B) returns
\* an issue built from a match of similarity 1.0 and located in B
C8_IdenticalBlocksReported ==
  ( /\ IsDetect /\ isEnabled(dupConfig) /\ lastCall.fail = "none"
    /\ \E i \in DOMAIN EarlierCalls :
         /\ EarlierCalls[i].path # lastCall.path
         /\ EarlierCalls[i].fail # "extract"
         /\ SharedBlock(EarlierCalls[i], lastCall) )
  => \E j \in DOMAIN lastIssues :
       /\ FracEQ(lastMatches[j].similarity, Frac(1, 1))
       /\ lastIssues[j].title = 100
       /\ lastIssues[j].location.file = lastCall.path

\* C9: two trees that differ only in the name strings of their nodes have
\* the same token sequence and the same fingerprint, and match with 1.0
C9_NamesDoNotMatter ==
  (tokResult.done /\ DifferOnlyInNames(treeA, treeB))
  => /\ tokResult.tokens1 = tokResult.tokens2
     /\ tokResult.hash1 = tokResult.hash2
     /\ FracEQ(tokResult.similarity, Frac(1, 1))

\* C9 witness: two different trees that differ only in names were compared
C9_Witness ==
  /\ tokResult.done
  /\ treeA # treeB
  /\ DifferOnlyInNames(treeA, treeB)
  /\ Len(tokResult.tokens1) >= 10

\* number of blocks extracted by the calls since the last reset
RECURSIVE ExtractedBlocks(_)
ExtractedBlocks(cs) ==
  IF cs = <<>> THEN 0
  ELSE (IF Head(cs).fail = "extract" THEN 0 ELSE Len(BlocksOfCall(Head(cs))))
       + ExtractedBlocks(Tail(cs))

PathsOfCalls(cs) == { cs[i].path : i \in DOMAIN cs }
PathsExtracted(cs) == { cs[i].path : i \in { j \in DOMAIN cs : cs[j].fail # "extract" } }

StatsMonotone ==
  /\ lastCall'.op = "reset" =>
       getStats'.totalBlocks = 0 /\ getStats'.processedFiles = 0
  /\ lastCall'.op # "reset" =>
       /\ getStats'.totalBlocks >= getStats.totalBlocks
       /\ getStats'.processedFiles >= getStats.processedFiles

\* C10 (as claimed): totalBlocks is the number of valid blocks extracted
\* since the last reset and processedFiles the number of distinct paths of
\* the detect() calls since then
C10_StatsCountAllCalls ==
  isEnabled(dupConfig) =>
    /\ getStats.totalBlocks = ExtractedBlocks(calls)
    /\ getStats.processedFiles = Cardinality(PathsOfCalls(calls))

\* C10 (amended): on an enabled detector, after every call totalBlocks is the
\* number of valid blocks extracted since the last reset and processedFiles
\* the number of distinct paths of the calls whose block extraction
\* completed; only reset() lowers the counts, and it sets both to 0
C10_StatsCountExtracted ==
  [][ isEnabled(dupConfig) =>
        /\ getStats'.totalBlocks = ExtractedBlocks(calls')
        /\ getStats'.processedFiles = Cardinality(PathsExtracted(calls'))
        /\ StatsMonotone ]_vars

\* C10 witness: two detect() calls on one path found no match, and the
\* counts grew all the same (4 blocks, 1 file)
C10_Witness ==
  /\ isEnabled(dupConfig) /\ IsDetect
  /\ Len(calls) = 2 /\ lastIssues = <<>>
  /\ getStats.totalBlocks = 4 /\ getStats.processedFiles = 1

----------------------------------------------------------------------------
(* Properties of several runs in one process *)

\* the run under way has been entered and none of its files has reached a
\* detector yet
RunJustStarted ==
  pc = "await" /\ \A f \in Files : fstate[f] = "reading"

\* C11: a second analyze() run in the same process starts with an empty
\* block collection: no block of an earlier run is there for the files of
\* the later run to be compared with
C11_SecondRunStartsEmpty ==
  (run > 1 /\ RunJustStarted) => codeBlocks = <<>>

----------------------------------------------------------------------------
(* Properties of the matches of one detect() call *)

\* the pairs (block of the file of the last call, accumulated block of
\* another file) whose similarity reaches the threshold, by position
QualifyingPairs ==
  LET new       == BlocksOfCall(lastCall)
      threshold == getThreshold(dupConfig, "similarityThreshold",
                                DefaultSimilarityThreshold)
  IN  { p \in (1..Len(new)) \X (1..Len(codeBlocks)) :
          /\ codeBlocks[p[2]].filePath # lastCall.path
          /\ FracGE(calculateSimilarity(new[p[1]], codeBlocks[p[2]]), threshold) }

\* C12: the issues returned by one detect() call correspond one to one to
\* the distinct pairs (new block, accumulated block of another file) at or
\* above similarityThreshold: none is reported twice, none is dropped
C12_EachPairReportedOnce ==
  (IsDetect /\ lastCall.fail = "none" /\ isEnabled(dupConfig))
  => /\ Len(lastIssues) = Cardinality(QualifyingPairs)
     /\ \A p \in QualifyingPairs :
          \E i \in DOMAIN lastMatches :
            /\ lastMatches[i].block1 = BlocksOfCall(lastCall)[p[1]]
            /\ lastMatches[i].block2 = codeBlocks[p[2]]

----------------------------------------------------------------------------
(* Properties of calculateSimilarity *)

\* C13: calculateSimilarity is 1.0 for equal fingerprints and otherwise the
\* number of distinct tokens common to both blocks over the larger of the two
\* token-sequence lengths; it lies within [0,1] and is symmetric
C13_SimilarityFormula ==
  tokResult.done =>
    LET s      == tokResult.similarity
        common == { t \in Range(tokResult.tokens1) : t \in Range(tokResult.tokens2) }
        longer == Max(Len(tokResult.tokens1), Len(tokResult.tokens2))
    IN  /\ tokResult.hash1 = tokResult.hash2 => FracEQ(s, Frac(1, 1))
        /\ tokResult.hash1 # tokResult.hash2 =>
             s.n * longer = Cardinality(common) * s.d
        /\ s.d > 0 /\ 0 <= s.n /\ s.n <= s.d
        /\ FracEQ(s, tokResult.reverse)

\* C13 witness: two blocks with different fingerprints that share some of
\* their tokens, one of them longer than the other
C13_Witness ==
  /\ tokResult.done
  /\ tokResult.hash1 # tokResult.hash2
  /\ Len(tokResult.tokens1) < Len(tokResult.tokens2)
  /\ tokResult.similarity.n > 0
  /\ tokResult.similarity.n < tokResult.similarity.d

----------------------------------------------------------------------------
(* Properties of the detectors' boundaries *)

\* C14: a failure inside detect() is not thrown to the caller, and the
\* detector then contributes no issue at all for the file: here for the
\* complexity detector, whose file-level pass fails on every file that holds
\* a function over the threshold
C14_FailedDetectContributesNothing ==
  \A f \in Files : \A k \in DOMAIN work[f].log :
    ( /\ work[f].log[k].detector = "complexity"
      /\ <<f, "complexity">> \notin env.throws
      /\ FileComplexityThrows(env.detectors.complexity, Ast(FileList[f].kind)) )
    => /\ ~work[f].log[k].threw
       /\ work[f].log[k].issues = <<>>

----------------------------------------------------------------------------
(* SpecScore: Analyzer.calculateFileScore applied to an issue list and a   *)
(* number of lines of code                                                 *)

\* the values of parsedFile.linesOfCode that are tried
LinesOfCode == {0, 1, 50, 100, 150, 200, 201, 5000}

\* the issue lists that are tried, by their number of issues per severity
ScoreInputs ==
  [critical : 0..MaxCritical, high : 0..MaxOther, medium : 0..MaxOther,
   low : 0..MaxOther, linesOfCode : LinesOfCode]

\* an issue list with the given number of issues of each severity
IssuesOf(in) ==
  [i \in 1..in.critical |-> [severity |-> "critical"]]
  \o [i \in 1..in.high |-> [severity |-> "high"]]
  \o [i \in 1..in.medium |-> [severity |-> "medium"]]
  \o [i \in 1..in.low |-> [severity |-> "low"]]

InitScore ==
  /\ scoreIn \in ScoreInputs
  /\ scoreOut = -1
  /\ treeA = None /\ treeB = None /\ tokResult = [done |-> FALSE]
  /\ dupConfig = defaultConfig /\ codeBlocks = <<>> /\ processedFiles = {}
  /\ DrvIdle /\ RunIdle

\* const score = this.calculateFileScore(allIssues, parsedFile.linesOfCode)
ComputeScore ==
  /\ scoreOut = -1
  /\ scoreOut' = calculateFileScore(IssuesOf(scoreIn), scoreIn.linesOfCode)
  /\ UNCHANGED <<scoreIn, treeA, treeB, tokResult, sideVars, dupVars, drvVars,
                 runVars>>

NextScore == ComputeScore

SpecScore == InitScore /\ [][NextScore]_vars

\* C16: the score of a file lies within [0,100] for every issue list and
\* every linesOfCode >= 0, and it is exactly 100 for a file without issues
\* (scores are kept in hundredths)
C16_FileScoreInRange ==
  [][ /\ scoreOut' >= 0
      /\ scoreOut' <= 10000
      /\ IssuesOf(scoreIn) = <<>> => scoreOut' = 10000
    ]_vars

\* C16 witness: the score of a file whose penalties exceed what 100 points
\* can pay has been computed
C16_Witness ==
  /\ scoreOut = 0
  /\ 10 * scoreIn.critical + 5 * scoreIn.high + 2 * scoreIn.medium
       + scoreIn.low > 120

----------------------------------------------------------------------------
(* Properties of the report *)

\* C17: in every report that analyze() returns, also the empty one,
\* summary.overallScore is the mean of the scores of the files rounded to
\* 2 decimals, and 100 when the report has no file (scores in hundredths)
C17_OverallScoreIsMean ==
  Returned =>
    IF report.files = <<>>
    THEN report.summary.overallScore = 10000
    ELSE LET total == SumSeq([i \in 1..Len(report.files) |-> report.files[i].score])
             n     == Len(report.files)
         IN  \* the nearest hundredth: |n * overallScore - total| <= n / 2
             /\ 2 * (n * report.summary.overallScore - total) <= n
             /\ 2 * (total - n * report.summary.overallScore) <= n

\* C18: in every report, each CategorySummary.count is the sum of its four
\* severity buckets, the counts of all category summaries add up to
\* summary.totalIssues, and summary.totalIssues is the number of issues of
\* all files of the report
C18_CountsAddUp ==
  /\ \A c \in DOMAIN report.categories :
       report.categories[c].count
         = SumSeq([k \in 1..Len(IssueSeverity) |->
                     report.categories[c].severity[IssueSeverity[k]]])
  /\ SumSeq([c \in 1..Len(report.categories) |-> report.categories[c].count])
       = report.summary.totalIssues
  /\ report.summary.totalIssues
       = SumSeq([i \in 1..Len(report.files) |-> Len(report.files[i].issues)])

\* C18 witness: a report of several files, two of them with issues, and
\* issues of two categories
C18_Witness ==
  /\ Returned
  /\ Len(report.categories) >= 2
  /\ \E i, j \in DOMAIN report.files :
       i < j /\ report.files[i].issues # <<>> /\ report.files[j].issues # <<>>

\* C19: in every report produced by analyze(), the location.file of each
\* issue is the path of the FileAnalysis that holds the issue
C19_IssueFileIsAnalysisPath ==
  \A i \in DOMAIN report.files :
    \A k \in DOMAIN report.files[i].issues :
      report.files[i].issues[k].location.file = report.files[i].path

\* C20: two runs of the full detector set over the same unchanged file list,
\* with the duplication detector reset between them, return the same
\* Report.summary (totalFiles, totalIssues, totalLinesOfCode, overallScore,
\* options; the timestamp is not modelled)
C20_SecondRunSameSummary ==
  (run = 2 /\ resetDone /\ pc = "returned") => report.summary = firstSummary

----------------------------------------------------------------------------
(* Properties of the complexity detector *)

\* the branch-introducing constructs in the subtree of a function: if,
\* ternary, switch case, the loop forms and catch, and every && / ||
BranchConstructs(functionNode) ==
  LET nodes == traverseAST(functionNode)
  IN  Cardinality({ i \in DOMAIN nodes :
        \/ nodes[i].type \in complexityNodes \ {"LogicalExpression"}
        \/ /\ nodes[i].type = "LogicalExpression"
           /\ nodes[i].operator \in {"&&", "||"} })

\* the issues the complexity detector returned for file f in this run
ComplexityIssuesOf(f) ==
  FlatSeq([k \in 1..Len(work[f].log) |->
             IF work[f].log[k].detector = "complexity" /\ ~work[f].log[k].threw
             THEN work[f].log[k].issues ELSE <<>>])

\* C21: the complexity reported for a function is 1 plus one for each
\* branch-introducing construct of its subtree, a && or || counting once
\* (one if, one && and one for loop: 4)
C21_ComplexityCountsEachBranchOnce ==
  \A f \in Files :
    \A i \in DOMAIN ComplexityIssuesOf(f) :
      LET issue == ComplexityIssuesOf(f)[i]
      IN  issue.rule = "complexidade-ciclomatica" =>
            \E n \in Range(FunctionNodes(Ast(FileList[f].kind))) :
              /\ n.loc.start = issue.location.line
              /\ issue.title = 1 + BranchConstructs(n)

\* C22: for a file whose mean function complexity exceeds the file
\* threshold, the complexity detector returns exactly one file-level issue,
\* of medium severity and anchored at line 1, besides its function-level
\* issues; a file without functions has file-level complexity 0
C22_FileLevelIssue ==
  \A f \in Files : \A k \in DOMAIN work[f].log :
    ( work[f].log[k].detector = "complexity" /\ ~work[f].log[k].threw ) =>
      LET ast    == Ast(FileList[f].kind)
          issues == work[f].log[k].issues
          level  == { i \in DOMAIN issues : issues[i].rule = "complexidade-arquivo" }
      IN  /\ FunctionNodes(ast) = <<>> => calculateFileComplexity(ast) = 0
          /\ calculateFileComplexity(ast)
               > getThreshold(env.detectors.complexity, "file", DefaultFileComplexity)
             => /\ Cardinality(level) = 1
                /\ \A i \in level :
                     issues[i].severity = "medium" /\ issues[i].location.line = 1

----------------------------------------------------------------------------
(* ConfigManager: loadConfig / validateConfig over the detector thresholds *)

MaxLoads == 3

\* a JSON value found where a threshold is expected
Num(v)      == [type |-> "number", v |-> v]
StringValue == [type |-> "string", v |-> 0]
Undefined   == [type |-> "undefined", v |-> 0]

validateNumber(value, min, max, defaultValue) ==
  IF value.type # "number" \/ value.v < min \/ value.v > max
  THEN defaultValue
  ELSE value.v

\* target.complexity = {...} and target.duplication = {...}: the sections
\* of `target` named by `source` are replaced, the others are kept
mergeDetectorConfig(target, source) ==
  [complexity |->
     IF source.complexity.present
     THEN [function |-> validateNumber(source.complexity.function, 1, 50,
                                       target.complexity.function),
           file     |-> validateNumber(source.complexity.file, 1, 100,
                                       target.complexity.file)]
     ELSE target.complexity,
   duplication |->
     IF source.duplication.present
     THEN [minLines  |-> validateNumber(source.duplication.minLines, 3, 50,
                                        target.duplication.minLines),
           minTokens |-> validateNumber(source.duplication.minTokens, 10, 500,
                                        target.duplication.minTokens)]
     ELSE target.duplication]

\* validatedConfig = { ...DEFAULT_CONFIG } copies one level only, so
\* validatedConfig.detectors is the object DEFAULT_CONFIG.detectors and the
\* merge writes into both.  Returns the result and DEFAULT_CONFIG afterwards.
validateConfig(defaults, config) ==
  LET merged == mergeDetectorConfig(defaults, config)
  IN  [config |-> merged, defaults |-> merged]

\* findConfigFile / loadFromFile: no file, or a file that cannot be read or
\* parsed (the error is caught), give DEFAULT_CONFIG
loadConfig(defaults, raw) ==
  IF raw.file = "ok"
  THEN validateConfig(defaults, raw.detectors)
  ELSE [config |-> defaults, defaults |-> defaults]

RawComplexity ==
  { [present |-> FALSE, function |-> Undefined, file |-> Undefined] }
  \cup { [present |-> TRUE, function |-> fn, file |-> fl] :
           fn \in {Undefined, StringValue, Num(0), Num(5)},
           fl \in {Undefined, Num(30)} }

RawDuplication ==
  { [present |-> FALSE, minLines |-> Undefined, minTokens |-> Undefined] }
  \cup { [present |-> TRUE, minLines |-> ml, minTokens |-> mt] :
           ml \in {Undefined, Num(2), Num(3)},
           mt \in {Undefined, Num(20)} }

RawDetectors ==
  { [complexity |-> c, duplication |-> d] :
      c \in RawComplexity, d \in RawDuplication }

RawConfigs ==
  { [file |-> "ok", detectors |-> d] : d \in RawDetectors }
  \cup { [file |-> f, detectors |-> d] :
           f \in {"none", "unreadable"},
           d \in { x \in RawDetectors :
                     ~x.complexity.present /\ ~x.duplication.present } }

InitCfg ==
  /\ SideIdle
  /\ treeA = None /\ treeB = None /\ tokResult = [done |-> FALSE]
  /\ ScoreIdle
  /\ dupConfig = defaultConfig /\ codeBlocks = <<>> /\ processedFiles = {}
  /\ DrvOnlyIdle /\ RunIdle

\* ConfigManager.loadConfig(projectPath)
LoadConfig(raw) ==
  /\ nLoads < MaxLoads
  /\ LET r == loadConfig(DEFAULT_CONFIG, raw)
     IN  /\ loadedConfig' = r.config
         /\ DEFAULT_CONFIG' = r.defaults
  /\ rawConfig' = raw
  /\ nLoads' = nLoads + 1
  /\ UNCHANGED <<treeA, treeB, tokResult, scoreVars, issueVars, builderVars, ctorVars,
                 dupVars, drvVars, runVars>>

\* ConfigManager.validateConfig(config), called directly
ValidateConfig(config) ==
  /\ nLoads < MaxLoads
  /\ LET r == validateConfig(DEFAULT_CONFIG, config)
     IN  /\ loadedConfig' = r.config
         /\ DEFAULT_CONFIG' = r.defaults
  /\ rawConfig' = [file |-> "ok", detectors |-> config]
  /\ nLoads' = nLoads + 1
  /\ UNCHANGED <<treeA, treeB, tokResult, scoreVars, issueVars, builderVars, ctorVars,
                 dupVars, drvVars, runVars>>

NextCfg ==
  \/ \E raw \in RawConfigs : LoadConfig(raw)
  \/ \E config \in RawDetectors : ValidateConfig(config)

SpecCfg == InitCfg /\ [][NextCfg]_vars

\* the value cannot be used as a threshold within [min, max]
Unusable(value, min, max) ==
  value.type # "number" \/ value.v < min \/ value.v > max

\* C23: whatever was loaded before, every threshold that is absent or
\* malformed in the configuration being loaded has its documented default
\* in the configuration returned
C23_AbsentThresholdsDefault ==
  nLoads > 0 =>
    LET d == rawConfig.detectors
        absent == rawConfig.file # "ok"
    IN  /\ ( absent \/ ~d.complexity.present
                    \/ Unusable(d.complexity.function, 1, 50) )
           => loadedConfig.complexity.function = 10
        /\ ( absent \/ ~d.complexity.present
                    \/ Unusable(d.complexity.file, 1, 100) )
           => loadedConfig.complexity.file = 20
        /\ ( absent \/ ~d.duplication.present
                    \/ Unusable(d.duplication.minLines, 3, 50) )
           => loadedConfig.duplication.minLines = 6
        /\ ( absent \/ ~d.duplication.present
                    \/ Unusable(d.duplication.minTokens, 10, 500) )
           => loadedConfig.duplication.minTokens = 50

----------------------------------------------------------------------------
(* IssueBuilder: with*() calls in any order, then build() *)

\* what a caller may pass to a with*() method: an empty or a non-empty value
FieldValues == {"", "value"}

\* !this.issue.x: the property was never set, or holds an empty value
Falsy(v) == v = Absent \/ v = ""

\* build() without the test of `rule`
buildWithoutRuleTest(partial) ==
  IF \E f \in RequiredFields \ {"rule"} : Falsy(partial[f])
  THEN [called |-> TRUE, threw |-> TRUE]
  ELSE [called |-> TRUE, threw |-> FALSE, issue |-> partial]

\* build(): throws when a required property is missing, else returns
\* this.issue
build(partial) ==
  IF \E f \in RequiredFields : Falsy(partial[f])
  THEN [called |-> TRUE, threw |-> TRUE]
  ELSE [called |-> TRUE, threw |-> FALSE, issue |-> partial]

InitIssue ==
  /\ SideIdle
  /\ treeA = None /\ treeB = None /\ tokResult = [done |-> FALSE]
  /\ ScoreIdle
  /\ dupConfig = defaultConfig /\ codeBlocks = <<>> /\ processedFiles = {}
  /\ DrvOnlyIdle /\ RunIdle

\* withId, withCategory, ..., withRule: this.issue.<field> = value
WithField(field, value) ==
  /\ ~buildResult.called
  /\ partialIssue' = [partialIssue EXCEPT ![field] = value]
  /\ UNCHANGED <<buildResult, cfgVars, builderVars, ctorVars, treeA, treeB, tokResult,
                 scoreVars, dupVars, drvVars, runVars>>

Build ==
  /\ ~buildResult.called
  /\ buildResult' = build(partialIssue)
  /\ UNCHANGED <<partialIssue, cfgVars, builderVars, ctorVars, treeA, treeB, tokResult,
                 scoreVars, dupVars, drvVars, runVars>>

NextIssue ==
  \/ \E field \in IssueFields, value \in FieldValues : WithField(field, value)
  \/ Build

SpecIssue == InitIssue /\ [][NextIssue]_vars

\* C24: build() throws whenever one of the eight required properties was
\* not set, in whatever order the with*() methods were called, and an issue
\* it returns has all of them
C24_BuildNeedsAllFields ==
  buildResult.called =>
    /\ (\E f \in RequiredFields : partialIssue[f] = Absent)
         => buildResult.threw
    /\ ~buildResult.threw
         => \A f \in RequiredFields : buildResult.issue[f] # Absent

\* build() was called with everything set but the rule, and threw
C24_Witness ==
  /\ buildResult.called /\ buildResult.threw
  /\ partialIssue["rule"] = Absent
  /\ \A f \in RequiredFields \ {"rule"} : partialIssue[f] = "value"

----------------------------------------------------------------------------
(* ReportBuilder: addFile / withOptions before and after build() *)

MaxAdds == 3

\* file analyses a caller may add: a clean file and two files with an issue
SampleAnalyses ==
  { [path |-> "a.js", linesOfCode |-> 4, issues |-> <<>>, score |-> 10000],
    [path |-> "b.js", linesOfCode |-> 7,
     issues |-> << [category |-> "complexity", severity |-> "low",
                    rule |-> "complexidade-ciclomatica"] >>,
     score |-> 9901],
    [path |-> "c.js", linesOfCode |-> 8,
     issues |-> << [category |-> "duplication", severity |-> "high",
                    rule |-> "codigo-duplicado"] >>,
     score |-> 9504] }

SampleOptions == { [language |-> "javascript"], [language |-> "typescript"] }

InitReport ==
  /\ builderReport = NewReport
  /\ returned = [built |-> FALSE]
  /\ CfgIdle /\ IssueIdle /\ CtorIdle
  /\ treeA = None /\ treeB = None /\ tokResult = [done |-> FALSE]
  /\ ScoreIdle
  /\ dupConfig = defaultConfig /\ codeBlocks = <<>> /\ processedFiles = {}
  /\ DrvOnlyIdle /\ RunIdle

\* builder.addFile(fileAnalysis): pushes into this.report.files and updates
\* this.report.summary, .categories and .topIssues
AddFile(fa) ==
  /\ Len(builderReport.files) < MaxAdds
  /\ builderReport' = addFile(builderReport, fa)
  /\ UNCHANGED <<returned, cfgVars, issueVars, ctorVars, treeA, treeB, tokResult,
                 scoreVars, dupVars, drvVars, runVars>>

\* builder.withOptions(options): this.report.summary.options = options
WithOptions(options) ==
  /\ builderReport.summary.options # options
  /\ builderReport' = withOptions(builderReport, options)
  /\ UNCHANGED <<returned, cfgVars, issueVars, ctorVars, treeA, treeB, tokResult,
                 scoreVars, dupVars, drvVars, runVars>>

\* const report = builder.build(): `return this.report as Report` hands out
\* the builder's own object, so the caller holds a reference to this.report.
\* atBuild records what the Report was when build() returned.
BuildReport ==
  /\ ~returned.built
  /\ returned' = [built |-> TRUE, ref |-> "this.report",
                  atBuild |-> builderReport]
  /\ UNCHANGED <<builderReport, cfgVars, issueVars, ctorVars, treeA, treeB, tokResult,
                 scoreVars, dupVars, drvVars, runVars>>

NextReport ==
  \/ \E fa \in SampleAnalyses : AddFile(fa)
  \/ \E options \in SampleOptions : WithOptions(options)
  \/ BuildReport

SpecReport == InitReport /\ [][NextReport]_vars

\* the Report the caller reads through the reference build() returned
ReturnedReport == IF returned.ref = "this.report" THEN builderReport ELSE None

\* C25: once build() has returned a Report, its files, summary, categories
\* and topIssues stay what they were, whatever is called on the builder
C25_BuiltReportIsFrozen ==
  returned.built =>
    /\ ReturnedReport.files      = returned.atBuild.files
    /\ ReturnedReport.summary    = returned.atBuild.summary
    /\ ReturnedReport.categories = returned.atBuild.categories
    /\ ReturnedReport.topIssues  = returned.atBuild.topIssues

----------------------------------------------------------------------------
(* The Analyzer constructor, its asynchronous configuration load, and the  *)
(* code that reads getRevisorConfig(): the `analisar` and `relatorio`      *)
(* commands, which read it in the statement after `new Analyzer(...)`, and *)
(* a library caller, which may await something else first.                 *)
(*                                                                         *)
(* caller.pc: "start", "constructed" (the constructor returned),           *)
(*            "suspended" (library caller at an await), "gotConfig"        *)
(*            (getRevisorConfig() returned), "exited" (command ended)      *)

\* Report.summary of the analysis the command was asked for: the score in
\* hundredths and the number of issues
Summaries ==
  { [overallScore |-> s, totalIssues |-> 0] : s \in {0, 10000} }
  \cup { [overallScore |-> s, totalIssues |-> 3] :
           s \in {0, 5999, 6000, 7950, 7999, 8000, 9900} }

Callers ==
  { [kind |-> "analisar", pc |-> "start", config |-> None,
     linguagem |-> l, summary |-> s] : l \in BOOLEAN, s \in Summaries }
  \cup { [kind |-> "relatorio", pc |-> "start", config |-> None,
          linguagem |-> FALSE, summary |-> s] : s \in Summaries }
  \cup { [kind |-> "library", pc |-> "start", config |-> None,
          linguagem |-> FALSE, summary |-> s] :
           s \in { x \in Summaries : x.totalIssues = 0 /\ x.overallScore = 0 } }

InitCtor ==
  /\ revisorConfig = "unset" /\ configLoad = "none"
  /\ caller \in Callers
  /\ CfgIdle /\ IssueIdle /\ BuilderIdle
  /\ treeA = None /\ treeB = None /\ tokResult = [done |-> FALSE]
  /\ ScoreIdle
  /\ dupConfig = defaultConfig /\ codeBlocks = <<>> /\ processedFiles = {}
  /\ DrvOnlyIdle /\ RunIdle

ctorFrame ==
  <<cfgVars, issueVars, builderVars, treeA, treeB, tokResult, scoreVars,
    dupVars, drvVars, pc, env, fstate, work, settled, batchStart,
    fileAnalyses, report, order, procVars>>

\* new Analyzer({}, projectPath): the constructor calls initializeConfig(),
\* which starts ConfigManager.loadConfig() and returns without waiting
Construct ==
  /\ caller.pc = "start"
  /\ caller' = [caller EXCEPT !.pc = "constructed"]
  /\ configLoad' = "pending"
  /\ UNCHANGED <<revisorConfig, exitCode, ctorFrame>>

\* the library caller awaits something else before asking for the config
Suspend ==
  /\ caller.kind = "library" /\ caller.pc = "constructed"
  /\ caller' = [caller EXCEPT !.pc = "suspended"]
  /\ UNCHANGED <<revisorConfig, configLoad, exitCode, ctorFrame>>

\* The positions at which the caller has given the thread back
CallerOffStack == {"suspended", "gotConfig"}

\* .then(config => { this.revisorConfig = config; ... }): a promise callback
\* runs only when no other code is on the stack; after process.exit() no
\* callback runs
LoadSettle ==
  /\ configLoad = "pending"
  /\ caller.kind = "library" /\ caller.pc \in CallerOffStack
  /\ revisorConfig' = "loaded"
  /\ configLoad' = "settled"
  /\ UNCHANGED <<caller, exitCode, ctorFrame>>

\* const config = analyzer.getRevisorConfig(): return this.revisorConfig
GetRevisorConfig ==
  /\ caller.pc \in {"constructed", "suspended"}
  /\ caller.config = None
  /\ caller' = [caller EXCEPT !.pc = "gotConfig", !.config = revisorConfig]
  /\ UNCHANGED <<revisorConfig, configLoad, exitCode, ctorFrame>>

\* The rest of the command: config.analysis.includePatterns is read to build
\* the analysis options, a TypeError when config is undefined, and the catch
\* block ends the process with 1.  Otherwise the analysis runs; analisar
\* ends with getExitCode(...), relatorio ends normally.
CommandRun ==
  /\ caller.kind \in {"analisar", "relatorio"} /\ caller.pc = "gotConfig"
  /\ caller' = [caller EXCEPT !.pc = "exited"]
  /\ exitCode' = IF caller.config = "unset" THEN 1
                 ELSE IF caller.kind = "relatorio" THEN 0
                 ELSE getExitCode(caller.summary.overallScore,
                                  caller.summary.totalIssues)
  /\ UNCHANGED <<revisorConfig, configLoad, ctorFrame>>

NextCtor ==
  \/ Construct
  \/ Suspend
  \/ LoadSettle
  \/ GetRevisorConfig
  \/ CommandRun

SpecCtor == InitCtor /\ [][NextCtor]_vars

\* C26: analisar ends with 0 when the report has no issue or its score is
\* at least 80, with 1 for a score from 60 up to 80, with 2 below 60
C26_ExitCodeFollowsScore ==
  ( caller.pc = "exited" /\ caller.kind = "analisar" ) =>
    exitCode = IF caller.summary.totalIssues = 0 THEN 0
               ELSE IF caller.summary.overallScore >= 8000 THEN 0
               ELSE IF caller.summary.overallScore >= 6000 THEN 1
               ELSE 2

\* Once analyze() has returned a report to the command, the exit code is
\* the one getExitCode() gives for the report's score and issue count
ExitCodeAfterAnalyze ==
  ( pc = "exited" /\ exitCode # 1 ) =>
    exitCode = IF report.summary.totalIssues = 0 THEN 0
               ELSE IF report.summary.overallScore >= 8000 THEN 0
               ELSE IF report.summary.overallScore >= 6000 THEN 1
               ELSE 2

\* C28: whenever getRevisorConfig() is called after the constructor has
\* returned, it returns a loaded configuration
C28_ConfigLoadedAfterConstructor ==
  caller.pc \in {"gotConfig", "exited"} => caller.config = "loaded"

----------------------------------------------------------------------------
(* ComplexityDetector.detect over every function form *)

\* thresholds.function and thresholds.file handed to the constructor
ComplexityConfigs ==
  { [enabled |-> TRUE, thresholds |-> [function |-> fn, file |-> fl]] :
      fn \in {0, 2, 4, 5, 10}, fl \in {3, 20} }
  \cup { [enabled |-> FALSE, thresholds |-> [function |-> 2, file |-> 3]] }

InitCx ==
  /\ dupConfig = defaultConfig /\ codeBlocks = <<>> /\ processedFiles = {}
  /\ DrvIdle /\ TokIdle /\ RunIdle

\* new ComplexityDetector(config).detect(file)
DetectComplexity(config, kind) ==
  /\ nCalls < MaxCalls
  /\ lastCall' = [op |-> "complexity", path |-> "c.js", kind |-> kind,
                  fail |-> "none", config |-> config]
  /\ lastIssues' = complexityDetect(config, ParsedFile("c.js", kind))
  /\ nCalls' = nCalls + 1
  /\ UNCHANGED <<lastMatches, calls, dupVars, tokVars, runVars>>

NextCx == \E config \in ComplexityConfigs, kind \in AstKinds :
            DetectComplexity(config, kind)

SpecCx == InitCx /\ [][NextCx]_vars

\* The functions written in a file, one node each: declarations, arrow
\* functions, methods, and the function expressions that are not the value
\* of a method
SourceFunctions(ast) ==
  LET nodes   == Range(traverseAST(ast))
      wrapped == { k.node : k \in UNION { Range(n.kids) :
                     n \in { m \in nodes : m.type = "MethodDefinition" } } }
  IN  { n \in nodes :
          \/ n.type \in {"FunctionDeclaration", "ArrowFunctionExpression",
                         "MethodDefinition", "ClassMethod"}
          \/ n.type = "FunctionExpression" /\ n \notin wrapped }

\* the function-complexity issues of the last detect() that point at `line`
IssuesAtLine(line) ==
  { i \in DOMAIN lastIssues :
      /\ lastIssues[i].rule = "complexidade-ciclomatica"
      /\ lastIssues[i].location.line = line }

\* C27: detect() returns exactly one function-complexity issue for each
\* function whose complexity exceeds the function threshold, whatever the
\* form of the function
C27_OneIssuePerFunction ==
  ( lastCall.op = "complexity" /\ lastCall.config.enabled ) =>
    \A n \in SourceFunctions(Ast(lastCall.kind)) :
      calculateCyclomaticComplexity(n) > lastCall.config.thresholds.function
        => Cardinality(IssuesAtLine(n.loc.start)) = 1

\* The same for the files without a class
OneIssuePerPlainFunction ==
  ( lastCall.op = "complexity" /\ lastCall.config.enabled
    /\ lastCall.kind \notin {"clsE", "clsB"} ) =>
    \A n \in SourceFunctions(Ast(lastCall.kind)) :
      calculateCyclomaticComplexity(n) > lastCall.config.thresholds.function
        => Cardinality(IssuesAtLine(n.loc.start)) = 1

----------------------------------------------------------------------------
(* Order of read completion *)

\* position in the input list of the file with the given absolute or
\* relative path
InputIndex(p) ==
  CHOOSE f \in DOMAIN FileList :
    FileList[f].path = p \/ getRelativePath(FileList[f].path) = p

\* C29: the per-file issues and scores of the report do not depend on the
\* order in which the reads complete.  When the reads complete in input
\* order a cross-file duplication issue is carried by the later of the two
\* files of the input list, so it must be carried by that file in every run.
C29_CarrierIndependentOfReadOrder ==
  pc = "returned" =>
    \A i \in DOMAIN report.files : \A k \in DOMAIN report.files[i].issues :
      LET issue == report.files[i].issues[k]
      IN  issue.category = "duplication" =>
            InputIndex(issue.description.filePath)
              < InputIndex(report.files[i].path)

\* the reads completed in input order
ReadsInInputOrder ==
  \A i, j \in DOMAIN order : i < j => order[i] < order[j]

\* In the runs whose reads complete in input order the later file carries
\* the issue
InOrderCarrierIsLaterFile ==
  ReadsInInputOrder => C29_CarrierIndependentOfReadOrder

----------------------------------------------------------------------------
(* Detector registry: createDetectorsForLanguage / createDetectorByName    *)
(* called several times in one process.  dupConfig is the configuration of *)
(* duplicationDetectorInstance once dupInstance holds.                     *)

\* the `duplication` entry of the detector configuration passed to a call
RegistryConfigs ==
  { [enabled |-> e, thresholds |-> [minLines |-> ml, minTokens |-> mt]] :
      e \in BOOLEAN, ml \in {3, 6, 10}, mt \in {10, 50} }

InitRegistry ==
  /\ dupInstance = FALSE
  /\ dupConfig = defaultConfig /\ codeBlocks = <<>> /\ processedFiles = {}
  /\ pc = "idle" /\ env = None /\ fstate = <<>>
  /\ work = <<>> /\ settled = <<>> /\ batchStart = 0 /\ fileAnalyses = <<>>
  /\ report = None /\ exitCode = -1 /\ order = <<>>
  /\ run = 0 /\ resetDone = FALSE /\ firstSummary = None
  /\ DrvIdle /\ TokIdle

registryFrame ==
  <<lastIssues, lastMatches, calls, codeBlocks, processedFiles, tokVars,
    pc, env, fstate, work, settled, batchStart, fileAnalyses, report,
    exitCode, order, run, resetDone, firstSummary>>

\* createDetectorsForLanguage('javascript', config): the duplication
\* detector is part of the returned list unless config.duplication says
\* enabled: false; it is constructed only when no instance exists yet
CreateDetectorsForLanguage(duplication) ==
  /\ nCalls < MaxCalls
  /\ LET listed == duplication.enabled # FALSE
     IN  /\ dupConfig' = IF listed /\ ~dupInstance
                         THEN DuplicationDetector(duplication)
                         ELSE dupConfig
         /\ dupInstance' = (dupInstance \/ listed)
         /\ lastCall' = [op |-> "createDetectorsForLanguage", path |-> None,
                         kind |-> None, fail |-> "none",
                         config |-> duplication, returned |-> listed]
  /\ nCalls' = nCalls + 1
  /\ UNCHANGED registryFrame

\* createDetectorByName('javascript', 'duplication', config): returns the
\* instance, constructing it only when none exists yet
CreateDetectorByName(duplication) ==
  /\ nCalls < MaxCalls
  /\ dupConfig' = IF ~dupInstance THEN DuplicationDetector(duplication)
                  ELSE dupConfig
  /\ dupInstance' = TRUE
  /\ lastCall' = [op |-> "createDetectorByName", path |-> None,
                  kind |-> None, fail |-> "none",
                  config |-> duplication, returned |-> TRUE]
  /\ nCalls' = nCalls + 1
  /\ UNCHANGED registryFrame

NextRegistry ==
  \/ \E d \in RegistryConfigs : CreateDetectorsForLanguage(d)
  \/ \E d \in RegistryConfigs : CreateDetectorByName(d)

SpecRegistry == InitRegistry /\ [][NextRegistry]_vars

\* C30: the duplication detector a call returns applies the thresholds (and
\* the enabled flag) of the configuration passed to that call
C30_ReturnedDetectorHasCallConfig ==
  ( lastCall.op \in {"createDetectorsForLanguage", "createDetectorByName"}
    /\ lastCall.returned ) =>
      dupConfig = DuplicationDetector(lastCall.config)

\* a first call always returns a detector with the configuration passed
FirstCallHasCallConfig ==
  nCalls = 1 => C30_ReturnedDetectorHasCallConfig

====
